---- MODULE Spec2Model ----
(***************************************************************************)
(* Price resolution engine of suiwatch: PriceService.getTokenPrice, its    *)
(* cache (the tokens table behind DatabaseService) and its fallback chain  *)
(* of price sources (src/src/services/price.service.ts).                   *)
(*                                                                         *)
(* A getTokenPrice call is an async function: it is modelled as a process  *)
(* that takes one step per await on a price source: the call up to its     *)
(* first adapter (the cache check included), then one step per adapter's   *)
(* answer (the cache write included).  Calls interleave with the clock,    *)
(* with PriceService.initialize and with the other writer of the table.    *)
(*                                                                         *)
(* Spec: calls one after another, with the clock and the other writer.     *)
(* SpecConcurrent: two calls interleaving.  SpecRetry: retryOperation and  *)
(* the adapters of one resolution, attempt by attempt.  SpecWallet: the    *)
(* calls of GET /wallet/:address and the handler's own write.              *)
(* SpecCoinGecko: getCoinGeckoPrice, call after call, with the table of    *)
(* known IDs it fills in.  SpecAdapters: getDexScreenerPrice and           *)
(* getHopAggregatorPrice, one call at a time, request by request.          *)
(* SpecFallbacks: getAftermathPrice, get7kBatchPrice and                   *)
(* getDexScreenerViaSuiPrice, one call at a time.  SpecSuiJob and          *)
(* SpecZeroJob: the scheduled jobs of CronService                          *)
(* (src/src/services/cron.service.ts), the second with the wallet handler  *)
(* that leaves the tokens it retries.  SpecPriceRoute: the handler of      *)
(* GET /price/:tokenType.  SpecOverlap: calls that overlap, with           *)
(* getCoinGeckoPrice and its table looked into.                            *)
(***************************************************************************)
EXTENDS Integers, Sequences, FiniteSets, TLC

\* ------------------------------------------------------------------ bounds

\* Clock advances the model takes (each of CACHE_DURATION ms, or 1 ms more).
MaxTicks == 1

\* The largest maxRetries a retryOperation is called with.
MaxRetries == 3

\* The clock of a backoff wait advances in steps of TimeStep ms.
TimeStep == 400

\* --------------------------------------------------------------- constants

CACHE_DURATION == 5 * 60 * 1000
FETCH_TIMEOUT == 8000
\* The defaults of retryOperation's parameters maxRetries and delay.
DEFAULT_MAX_RETRIES == 2
DEFAULT_DELAY == 800

SUI == "0x2::sui::SUI"
TOK == "0xabc::mod::TOK"
\* The coin types the model resolves: the base asset and a generic token.
CoinTypes == {SUI, TOK}
\* A caller that passes no string at all (JavaScript undefined).
Undefined == "undefined"

\* Two getTokenPrice invocations may be in progress at once.
Calls == {"A", "B"}

\* ------------------------------------------------------- JavaScript values
\* A value is [kind, val]: a finite number, null, NaN, an infinity, or a
\* thrown error.  val is 0 for every kind but "number".

Num(n) == [kind |-> "number", val |-> n]
Null == [kind |-> "null", val |-> 0]
NaN == [kind |-> "NaN", val |-> 0]
Infinity == [kind |-> "Infinity", val |-> 0]
Thrown == [kind |-> "error", val |-> 0]
\* No adapter has answered yet.
NoAnswer == [kind |-> "none", val |-> 0]

\* typeof v === 'number'
TypeofNumber(v) == v.kind \in {"number", "NaN", "Infinity"}

\* v === 0
StrictEqZero(v) == v.kind = "number" /\ v.val = 0

\* What a price source can answer: a transport, timeout or parse failure,
\* or a candidate that may be out of the price domain.
RawAnswers == {Thrown, NaN, Infinity, Num(-1), Num(0), Num(1), Num(2)}

\* What parseFloat(token.price) of the /mmt-tokens handler yields for the
\* price strings of the model.
MmtPrices == {Num(-1), Num(0)}

\* ---------------------------------------------------------------- validator

isValidPrice(price) ==
    /\ TypeofNumber(price)
    /\ price.kind # "NaN"
    /\ price.kind # "Infinity"
    /\ price.val > 0

\* ------------------------------------------------------------------- state

VARIABLES
    dbService,  \* PriceService.dbService: FALSE until initialize() has run
    tokens,     \* the tokens table: a set of rows, at most one per coin_type
    now,        \* Date.now(), in ms
    pc,         \* per call: "idle", or "source" while it awaits an adapter
    tokenType,  \* per call: the argument of getTokenPrice
    cacheRead,  \* per call: how its cache check ended: "none", "miss", "error"
    invoked,    \* per call: the source adapters invoked so far, in order
    last,       \* history: the latest step of a call, what it saw and did
    racing,     \* history: the latest write of a call that another call for
                \* the same coin type, still in progress, will overwrite
    retry,      \* the retryOperation in progress: its arguments, loop, timer
    walk,       \* the resolution whose adapters are followed attempt by attempt
    COINGECKO_ID_MAP,  \* the module's table of known CoinGecko IDs
    sources,    \* what CoinGecko and the indexer answer at present
    cg,         \* history: the latest getCoinGeckoPrice call
    before,     \* history: the getCoinGeckoPrice call before the latest
    dex,        \* the getDexScreenerPrice call in progress, with its answers
    hop,        \* the getHopAggregatorPrice call in progress, with its quote
    viaSui,     \* the getDexScreenerViaSuiPrice call in progress
    batch,      \* the getAftermathPrice or get7kBatchPrice call in progress
    suiJob,     \* history: the latest run of CronService.updateSuiPrice
    suiHistory, \* the SUI price history: a set of prices with their times
    zeroJob,    \* the run of CronService.updateZeroPriceTokens in progress,
                \* or the latest one
    route,      \* the GET /price/:tokenType request in progress, or the
                \* latest one
    lookup      \* per call: the known ID its getCoinGeckoPrice call found
                \* in COINGECKO_ID_MAP when it began

vars ==
    <<dbService, tokens, now, pc, tokenType, cacheRead, invoked, last, racing,
      retry, walk, COINGECKO_ID_MAP, sources, cg, before, dex, hop, viaSui,
      batch, suiJob, suiHistory, zeroJob, route, lookup>>

callVars == <<pc, tokenType, cacheRead, invoked, last, racing>>

\* What the adapters themselves do (their attempts, their backoff waits) is
\* followed in a specification of its own, for one resolution at a time.
retryVars == <<retry, walk>>

storeVars == <<dbService, tokens, now, callVars>>

\* What one adapter does with the answers of its source is followed in
\* specifications of their own as well, one adapter call at a time.
adapterVars == <<COINGECKO_ID_MAP, sources, cg, before, dex, hop>>

\* So are the remaining adapters, the scheduled jobs and the handlers.
cronVars == <<suiJob, suiHistory, zeroJob, route, lookup>>

jobVars == <<viaSui, batch, cronVars>>

\* ------------------------------------------------------------ tokens table

\* DatabaseService.getToken: the row of a coin type, if there is one.
getToken(table, coinType) == {r \in table : r.coin_type = coinType}

\* DatabaseService.saveToken: upsert, the new row replaces the old one.
saveToken(table, row) ==
    {r \in table : r.coin_type # row.coin_type} \cup {row}

\* -------------------------------------------------------------------- cache

\* Faulty variant: a record whose age is exactly CACHE_DURATION counts as stale.
getCachedPrice_strictAge(tokenData, t) ==
    IF tokenData = {} THEN Null
    ELSE LET td == CHOOSE r \in tokenData : TRUE IN
         IF t - td.last_update >= CACHE_DURATION THEN Null
         ELSE IF StrictEqZero(td.price_usd) THEN Null
         ELSE td.price_usd

\* Faulty variant: the zero sentinel is not checked.
getCachedPrice_noZeroCheck(tokenData, t) ==
    IF tokenData = {} THEN Null
    ELSE LET td == CHOOSE r \in tokenData : TRUE IN
         IF t - td.last_update > CACHE_DURATION THEN Null
         ELSE td.price_usd

\* getCachedPrice once getToken has answered: null, or the stored price.
getCachedPrice(tokenData, t) ==
    IF tokenData = {} THEN Null
    ELSE LET td == CHOOSE r \in tokenData : TRUE IN
         IF t - td.last_update > CACHE_DURATION THEN Null
         ELSE IF StrictEqZero(td.price_usd) THEN Null
         ELSE td.price_usd

\* Faulty variant: the catch of getCachedPrice raises the error again.
getCachedPriceCatch_rethrow == Thrown

\* The catch of getCachedPrice: a failed read is answered null.
getCachedPriceCatch == Null

\* Faulty variant: the row keeps no timestamp of its own.
setCachedPriceRow_noStamp(coinType, p, t) ==
    [coin_type |-> coinType, price_usd |-> p, last_update |-> 0,
     metadata |-> "{}"]

\* The row setCachedPrice hands to saveToken at time t.
setCachedPriceRow(coinType, p, t) ==
    [coin_type |-> coinType, price_usd |-> p, last_update |-> t,
     metadata |-> "{}"]

\* Faulty variant: saveToken is never called.
setCachedPrice_noSave(table, coinType, p, t, ok) == table

\* Faulty variant: the write is skipped when the coin type has a record.
setCachedPrice_keepsFirst(table, coinType, p, t, ok) ==
    IF ok /\ getToken(table, coinType) = {}
    THEN saveToken(table, setCachedPriceRow(coinType, p, t))
    ELSE table

\* setCachedPrice: the table after the write; a write that raises (ok is
\* FALSE) is caught and logged, and the table is as it was.
setCachedPrice(table, coinType, p, t, ok) ==
    IF ok THEN saveToken(table, setCachedPriceRow(coinType, p, t)) ELSE table

\* Faulty variant: an error of saveToken leaves setCachedPrice and reaches
\* the catch at the end of getTokenPrice.
ReturnAfterPut_writeErrorEscapes(p, ok) == IF ok THEN p ELSE Null

\* What getTokenPrice returns after it awaited setCachedPrice(tokenType,
\* price): the price, whether the write succeeded or was caught and logged.
ReturnAfterPut(p, ok) == p

\* ------------------------------------------------------------------ sources

SuiChain ==
    <<"CoinGecko", "7k", "GeckoTerminal", "DexScreener">>

GenericChain ==
    <<"7k", "GeckoTerminal", "DexScreener", "CoinGecko", "Aftermath",
      "HopAggregator", "7kBatch", "DexScreenerViaSui">>

\* Faulty variant: the base asset has no branch of its own.
Chain_noSuiBranch(coinType) == GenericChain

\* The adapters getTokenPrice walks through for a coin type.
Chain(coinType) == IF coinType = SUI THEN SuiChain ELSE GenericChain

\* Faulty variant: an adapter lets the error of its source through.
AdapterResult_errorEscapes(raw) ==
    IF isValidPrice(raw) THEN raw ELSE IF raw = Thrown THEN Thrown ELSE Null

\* What an adapter returns for its source's answer: the candidate if it is
\* a valid price, null otherwise (a failure is caught, or retried to null).
AdapterResult(raw) == IF isValidPrice(raw) THEN raw ELSE Null

\* Faulty variant: the next adapter is called whether or not a price was found.
AfterAdapter_noShortCircuit(p, n, chain) ==
    IF n < Len(chain) THEN "next"
    ELSE IF isValidPrice(p) THEN "cache"
    ELSE "absent"

\* What getTokenPrice does with the price adapter number n of its chain
\* returned: cache and return it, call the next adapter, or give up.
AfterAdapter(p, n, chain) ==
    IF isValidPrice(p) THEN "cache"
    ELSE IF n < Len(chain) THEN "next"
    ELSE "absent"

\* Faulty variant: giving up stores the zero sentinel, as the wallet handler does.
NoPriceFound_zeroWrite(table, coinType, t) ==
    saveToken(table, [coin_type |-> coinType, price_usd |-> Num(0),
                      last_update |-> t, metadata |-> "{}"])

\* The tokens table when getTokenPrice gives up: it is not written.
NoPriceFound(table, coinType, t) == table

\* The tokens table when getTokenPrice answers from the cache: not written.
CacheHit(table, coinType, p, t) == table

\* Faulty variant: the catch at the end of getTokenPrice raises the error again,
\* as the one of CronService.updateSuiPrice does.
TopLevelCatch_rethrow == Thrown

\* The catch at the end of getTokenPrice: any error becomes null.
TopLevelCatch == Null

\* ----------------------------------------------------------- retryOperation

\* Faulty variant: the same wait after every failed attempt.
BackoffDelay_fixed(delay, i) == delay

\* The wait after the failure of the attempt with loop index i (from 0).
BackoffDelay(delay, i) == delay * (i + 1)

\* The catch of retryOperation: was this the last attempt?
LastAttempt(i, maxRetries) == i = maxRetries - 1

\* Faulty variant: the error of the last attempt is raised again.
RetryExhausted_rethrow == Thrown

\* What retryOperation returns when the last attempt has raised.
RetryExhausted == Null

\* The maxRetries an adapter runs its operation with.  The two adapters of
\* the 7k SDK do not use retryOperation: they make one attempt in a
\* try/catch that answers null, which is what one retry-less run does.
AdapterRetries(adapter) ==
    IF adapter \in {"GeckoTerminal", "DexScreener", "CoinGecko"}
    THEN DEFAULT_MAX_RETRIES
    ELSE 1

\* The deadline (ms) of the outbound calls of an adapter: the timeoutMs its
\* operation gives fetchWithTimeout; 0 when the call has no deadline.
Deadline(adapter) ==
    CASE adapter \in {"7k", "7kBatch"} -> 0
      [] adapter \in {"HopAggregator", "Aftermath"} -> 6000
      [] OTHER -> FETCH_TIMEOUT

\* What an operation that completes returns: a validated price, or null.
OperationResults == {Null, Num(1)}

\* The delays retryOperation is called with.
Delays == {TimeStep, DEFAULT_DELAY}

\* A retryOperation run.
\*   pc:      "operation" (an attempt is in flight), "timer" (the backoff
\*            wait), "returned", or "idle" (no run)
\*   i:       the loop variable
\*   count:   history: the invocations of operation so far
\*   attempt: history: how the latest attempt ended (Thrown: it raised)
\*   elapsed: ms since the timer was set
\*   waited:  history: the ms waited before the attempt in flight began
\*   out:     what the run returned
NoRetry ==
    [pc |-> "idle", maxRetries |-> 0, delay |-> 0, i |-> 0, count |-> 0,
     attempt |-> NoAnswer, elapsed |-> 0, waited |-> 0, out |-> NoAnswer]

\* retryOperation(operation, maxRetries, delay) up to its first await.
RetryStarted(maxRetries, delay) ==
    IF 0 < maxRetries
    THEN [NoRetry EXCEPT !.pc = "operation", !.maxRetries = maxRetries,
                         !.delay = delay, !.count = 1]
    ELSE [NoRetry EXCEPT !.pc = "returned", !.maxRetries = maxRetries,
                         !.delay = delay, !.out = Null]

\* A resolution followed adapter by adapter.
\*   chain:  its adapters (<<>>: no resolution), pos: the one it awaits
\*   open:   history: the adapters started that have not returned
\*   result: what the resolution returns (NoAnswer: not yet)
NoWalk == [chain |-> <<>>, pos |-> 0, open |-> {}, result |-> NoAnswer]

\* Faulty variant: the orchestrator does not await the adapter's promise.
Awaited_fireAndForget(r) == TRUE

\* `price = await this.getXPrice(tokenType)`: the orchestrator goes on only
\* when the adapter, that is its retryOperation, has returned.
Awaited(r) == r.pc = "returned"

\* ------------------------------------------------------------------ history

\* The record of a call's step.
\*   step:   "call" (getTokenPrice up to its first await) or "answer" (an
\*           adapter returned, and getTokenPrice ran on to its next await)
\*   read:   how the cache check of the call ended ("none": no check)
\*   raw:    what the source answered in this step (NoAnswer: no answer)
\*   n:      the adapters the call had invoked when the step began
\*   done:   the call returned in this step; result: what it returned
\*   puts:   the times the call invoked setCachedPrice
\*   stored: saveToken stored the row
Step(step, c, t, read, raw, n, done, res, puts, stored) ==
    [step |-> step, call |-> c, tokenType |-> t, read |-> read, raw |-> raw,
     n |-> n, done |-> done, result |-> res, puts |-> puts, stored |-> stored]

NoStep ==
    Step("none", "A", Undefined, "none", NoAnswer, 0, FALSE, Null, 0, FALSE)

\* No call has written while another one was resolving the same coin type.
NoRace == [call |-> "A", tokenType |-> Undefined, price |-> Null]

\* Another call than c is resolving coin type t.
Overlaps(c, t) ==
    \E c2 \in Calls \ {c} : pc[c2] = "source" /\ tokenType[c2] = t

\* ------------------------------------------------------ CoinGecko (source 4)

\* The most coins a CoinGecko search answers with.
MaxCoins == 2

\* coinType.split('::') for the arguments of the model; an argument without
\* '::' (the CoinGecko ID "sui" of the SUI branch) is one part.
Parts(coinType) ==
    CASE coinType = SUI -> <<"0x2", "sui", "SUI">>
      [] coinType = TOK -> <<"0xabc", "mod", "TOK">>
      [] OTHER -> <<coinType>>

extractContractAddress(coinType) == Parts(coinType)[1]

extractSymbol(coinType) == Parts(coinType)[Len(Parts(coinType))]

\* coinIdOrType.includes('::')
IncludesColons(coinIdOrType) == Len(Parts(coinIdOrType)) > 1

\* String.prototype.toLowerCase on the symbols and platform names in use.
toLowerCase(s) ==
    CASE s \in {"TOK", "Tok"} -> "tok"
      [] s \in {"SUI", "Sui"} -> "sui"
      [] s = "XYZ" -> "xyz"
      [] OTHER -> s

\* The arguments getTokenPrice passes to getCoinGeckoPrice: the literal ID
\* "sui" in the SUI branch, the coin type elsewhere (one with a known ID, one
\* without).
CoinGeckoArgs == {"sui", SUI, TOK}

\* COINGECKO_ID_MAP as the module is loaded, on the arguments of the model.
KnownIds ==
    [a \in CoinGeckoArgs |-> IF a = SUI THEN "sui" ELSE Undefined]

\* The coingecko_coin_id the indexer has for TOK.
IndexerId == "tok-gt"

\* What the indexer's token lookup answers: the request fails, a non-OK
\* status, a token without coingecko_coin_id, a token with one.
IndexerAnswers == {"throws", "not ok", "no id", IndexerId}

\* The coins CoinGecko lists: a symbol and the platforms it is deployed on.
\* The ID of a coin of a search answer is given by its place in the answer.
ListedCoins ==
    {[symbol |-> "Tok", platforms |-> {"Sui"}],
     [symbol |-> "Tok", platforms |-> {"ethereum"}],
     [symbol |-> "XYZ", platforms |-> {"Sui"}]}

CoinId(i) == "c" \o ToString(i)

CoinLists == UNION {[1..n -> ListedCoins] : n \in 0..MaxCoins}

\* What the search request answers.
SearchAnswers ==
    {[status |-> st, coins |-> <<>>] : st \in {"throws", "not ok"}}
    \cup {[status |-> "ok", coins |-> l] : l \in CoinLists}

\* The IDs a simple/price request is made for.
PriceIds == {"sui", IndexerId} \cup {CoinId(i) : i \in 1..MaxCoins}

\* What a simple/price request answers: the request fails; Null for a
\* non-OK status or an answer without a usd field; the usd field.
PriceAnswers == {Thrown, Null, Num(1)}

\* The answers of the indexer and of CoinGecko to the requests of a call.
SourceAnswers ==
    [indexer : IndexerAnswers, search : SearchAnswers,
     price : [PriceIds -> PriceAnswers]]

Request(kind, arg) == [kind |-> kind, arg |-> arg]

\* Every request fails.
NoSources ==
    [indexer |-> "throws",
     search |-> [status |-> "throws", coins |-> <<>>],
     price |-> [id \in PriceIds |-> Thrown]]

\* What an adapter call did: the requests it made in order, the value it
\* returned, and the table of known IDs it left.
Outcome(requests, result, map) ==
    [requests |-> requests, result |-> result, map |-> map]

\* History of a getCoinGeckoPrice call: its argument, the ID the table held
\* for it when it began, its requests and its result.
CallRecord(arg, known, o) ==
    [arg |-> arg, known |-> known, requests |-> o.requests,
     result |-> o.result]

NoCall == CallRecord(Undefined, Undefined, Outcome(<<>>, Null, KnownIds))

\* Array.prototype.find, given the places of the elements that satisfy the
\* test: the first of them; 0 when there is none.
find(hits) ==
    IF hits = {} THEN 0 ELSE CHOOSE i \in hits : \A j \in hits : i <= j

\* c.symbol.toLowerCase() === symbol
ExactSymbol(c, symbol) == toLowerCase(c.symbol) = symbol

\* Object.keys(c.platforms).some(p => p.toLowerCase().includes('sui')), on
\* the platform names in use.
OnSuiPlatform(c) == \E p \in c.platforms : toLowerCase(p) = "sui"

\* The match of the search: the first coin with the symbol on a SUI platform,
\* or else the first coin with the symbol; 0 when no coin has the symbol.
\* Faulty variant: no preference for the SUI platform.
BestMatch_anyPlatform(coins, symbol) ==
    find({i \in 1..Len(coins) : ExactSymbol(coins[i], symbol)})

BestMatch(coins, symbol) ==
    LET onSui == find({i \in 1..Len(coins) :
                          /\ ExactSymbol(coins[i], symbol)
                          /\ OnSuiPlatform(coins[i])})
    IN  IF onSui # 0 THEN onSui
        ELSE find({i \in 1..Len(coins) : ExactSymbol(coins[i], symbol)})

\* COINGECKO_ID_MAP[tokenType] = id, for the coin type tokenType.
\* Faulty variant: the ID is not kept.
CacheIdMapping_forgets(map, coinType, id) == map

\* Faulty variant: the ID is kept under one key, whatever the coin type.
CacheIdMapping_oneKey(map, coinType, id) == [map EXCEPT ![SUI] = id]

CacheIdMapping(map, coinType, id) == [map EXCEPT ![coinType] = id]

\* getCoinGeckoBySearch(tokenType): the indexer's lookup and the price of the
\* ID it names; failing that, the search by symbol and the price of its
\* match.  Every failure is caught inside the operation, so retryOperation
\* runs it once.
getCoinGeckoBySearch(map, coinType, src) ==
    LET symbol == toLowerCase(extractSymbol(coinType))
        cgId == src.indexer
        hasId == cgId \notin {"throws", "not ok", "no id"}
        step1 == IF hasId
                 THEN <<Request("indexer", coinType), Request("price", cgId)>>
                 ELSE <<Request("indexer", coinType)>>
        match == IF src.search.status = "ok"
                 THEN BestMatch(src.search.coins, symbol) ELSE 0
        step2 == IF match = 0
                 THEN <<Request("search", symbol)>>
                 ELSE <<Request("search", symbol),
                        Request("price", CoinId(match))>>
    IN  IF hasId /\ isValidPrice(src.price[cgId])
        THEN Outcome(step1, src.price[cgId],
                     CacheIdMapping(map, coinType, cgId))
        ELSE IF match # 0 /\ isValidPrice(src.price[CoinId(match)])
        THEN Outcome(step1 \o step2, src.price[CoinId(match)],
                     CacheIdMapping(map, coinType, CoinId(match)))
        ELSE Outcome(step1 \o step2, Null, map)

\* COINGECKO_ID_MAP[coinIdOrType] || null
KnownId(map, coinIdOrType) == map[coinIdOrType]

\* The rest of getCoinGeckoPrice: the price of coinId under retryOperation;
\* a request that fails is made again, a non-OK status or an invalid price
\* ends the operation with null.
getCoinGeckoById(map, coinId, src) ==
    IF src.price[coinId] = Thrown
    THEN Outcome([i \in 1..DEFAULT_MAX_RETRIES |-> Request("price", coinId)],
                 RetryExhausted, map)
    ELSE Outcome(<<Request("price", coinId)>>,
                 IF isValidPrice(src.price[coinId]) THEN src.price[coinId]
                 ELSE Null,
                 map)

\* Faulty variant: the adapter remembers that its last call for the
\* argument found no price and makes no request for it again.
getCoinGeckoPrice_remembersFailure(map, coinIdOrType, src) ==
    LET knownId == KnownId(map, coinIdOrType)
    IN  IF cg.arg = coinIdOrType /\ cg.requests # <<>> /\ cg.result = Null
        THEN Outcome(<<>>, Null, map)
        ELSE IF knownId = Undefined /\ IncludesColons(coinIdOrType)
        THEN getCoinGeckoBySearch(map, coinIdOrType, src)
        ELSE getCoinGeckoById(map, IF knownId # Undefined THEN knownId
                                   ELSE coinIdOrType, src)

getCoinGeckoPrice(map, coinIdOrType, src) ==
    LET knownId == KnownId(map, coinIdOrType)
        coinId == IF knownId # Undefined THEN knownId ELSE coinIdOrType
    IN  IF knownId = Undefined /\ IncludesColons(coinIdOrType)
        THEN getCoinGeckoBySearch(map, coinIdOrType, src)
        ELSE getCoinGeckoById(map, coinId, src)

\* ---------------------------------------------------- DexScreener (source 3)

\* The most pairs a DexScreener search answers with.
MaxPairs == 2

\* Number(priceUsd) for the price strings in use.
Number(s) ==
    CASE s = "1" -> Num(1)
      [] s = "2" -> Num(2)
      [] OTHER -> NaN

\* The pairs DexScreener lists: chainId ("" when the pair names none),
\* liquidity.usd (Null when the pair has no liquidity field) and priceUsd.
DexScreenerPairs ==
    [chainId : {"sui", "ethereum", ""},
     liquidity : {Null, Num(0), Num(1000), Num(5000)},
     priceUsd : {"1", "2", "abc"}]

PairLists == UNION {[1..n -> DexScreenerPairs] : n \in 0..MaxPairs}

\* What a search request answers: the request fails, a non-OK status, or a
\* list of pairs (`pairs: null` is the empty list).
DexAnswers ==
    {[status |-> st, pairs |-> <<>>] : st \in {"throws", "not ok"}}
    \cup {[status |-> "ok", pairs |-> l] : l \in PairLists}

\* The second request was not made.
NotAsked == [status |-> "none", pairs |-> <<>>]

\* p.chainId === 'sui' || !p.chainId
OnSuiChain(p) == p.chainId = "sui" \/ p.chainId = ""

\* p.liquidity?.usd > 0
HasLiquidity(p) == p.liquidity # Null /\ p.liquidity.val > 0

\* suiPairs.sort((a, b) => b.liquidity.usd - a.liquidity.usd)[0]: the first
\* of the pairs with the most liquidity.
\* Faulty variant: the pair with the least liquidity.
bestPool_leastLiquid(suiPairs) ==
    LET i == CHOOSE i \in 1..Len(suiPairs) :
                 /\ \A j \in 1..Len(suiPairs) :
                       suiPairs[j].liquidity.val >= suiPairs[i].liquidity.val
                 /\ \A j \in 1..(i - 1) :
                       suiPairs[j].liquidity.val > suiPairs[i].liquidity.val
    IN  suiPairs[i]

bestPool(suiPairs) ==
    LET i == CHOOSE i \in 1..Len(suiPairs) :
                 /\ \A j \in 1..Len(suiPairs) :
                       suiPairs[j].liquidity.val <= suiPairs[i].liquidity.val
                 /\ \A j \in 1..(i - 1) :
                       suiPairs[j].liquidity.val < suiPairs[i].liquidity.val
    IN  suiPairs[i]

\* `if (suiPairs.length === 0) return null`.
\* Faulty variant: the price of the first pair with a valid price.
NoSuiPairs_scansAll(pairs) ==
    LET priced == {i \in 1..Len(pairs) : isValidPrice(Number(pairs[i].priceUsd))}
    IN  IF priced = {} THEN Null
        ELSE Number(pairs[CHOOSE i \in priced : \A j \in priced : i <= j].priceUsd)

NoSuiPairs(pairs) == Null

\* The price of a list of pairs: that of the SUI pair with the most
\* liquidity, when it is a valid price.
PriceOfPairs(pairs) ==
    LET suiPairs == SelectSeq(SelectSeq(pairs, OnSuiChain), HasLiquidity)
    IN  IF Len(suiPairs) = 0 THEN NoSuiPairs(pairs)
        ELSE IF isValidPrice(Number(bestPool(suiPairs).priceUsd))
        THEN Number(bestPool(suiPairs).priceUsd)
        ELSE Null

\* `!data.pairs || data.pairs.length === 0` after an OK answer: the search
\* by contract address follows.
\* Faulty variant: it follows a non-OK answer as well.
NeedsContractQuery_alsoNotOk(full) ==
    full.status = "not ok" \/ (full.status = "ok" /\ full.pairs = <<>>)

NeedsContractQuery(full) == full.status = "ok" /\ full.pairs = <<>>

\* One run of the operation of getDexScreenerPrice: its requests, whether it
\* raised, and what it returned.
DexOperation(coinType, full, contract) ==
    LET q1 == Request("search", coinType)
        q2 == Request("search", extractContractAddress(coinType))
    IN  IF full.status = "throws"
        THEN [requests |-> <<q1>>, result |-> Thrown]
        ELSE IF NeedsContractQuery(full)
        THEN IF contract.status = "throws"
             THEN [requests |-> <<q1, q2>>, result |-> Thrown]
             ELSE IF contract.status = "not ok" \/ contract.pairs = <<>>
             THEN [requests |-> <<q1, q2>>, result |-> Null]
             ELSE [requests |-> <<q1, q2>>,
                   result |-> PriceOfPairs(contract.pairs)]
        ELSE IF full.status = "not ok"
        THEN [requests |-> <<q1>>, result |-> Null]
        ELSE [requests |-> <<q1>>, result |-> PriceOfPairs(full.pairs)]

\* getDexScreenerPrice(tokenType): the operation under retryOperation; an
\* operation that raises is run again, DEFAULT_MAX_RETRIES times in all.
getDexScreenerPrice(coinType, full, contract) ==
    LET o == DexOperation(coinType, full, contract)
    IN  IF o.result = Thrown
        THEN [requests |-> [i \in 1..(DEFAULT_MAX_RETRIES * Len(o.requests))
                              |-> o.requests[((i - 1) % Len(o.requests)) + 1]],
              result |-> RetryExhausted]
        ELSE o

\* A getDexScreenerPrice call: its argument, the answers to its searches by
\* coin type and by contract address, its requests and its result.
DexCall(coinType, full, contract) ==
    [arg |-> coinType, full |-> full, contract |-> contract,
     requests |-> getDexScreenerPrice(coinType, full, contract).requests,
     result |-> getDexScreenerPrice(coinType, full, contract).result]

NoDexCall ==
    [arg |-> Undefined, full |-> NotAsked, contract |-> NotAsked,
     requests |-> <<>>, result |-> NoAnswer]

\* ------------------------------------------------- Hop aggregator (source 5)

\* amount_in of the quote request, in base units of the coin.
HOP_AMOUNT_IN == 1000000000

\* The decimals of USDC, the coin the quote is in.
USDC_DECIMALS == 6

Pow10(n) == 10 ^ n

\* The decimals of the coins quoted, and the USD value of one whole unit.
CoinDecimals == {6, 8, 9}

UnitPrices == {1, 2}

\* What the quote request answers: the request fails, a non-OK status, a
\* body without an amount, or a quote.
HopAnswers == {"throws", "not ok", "no amount", "quote"}

\* The exchange's quote: amount_out in minimal units of USDC for amountIn
\* base units of a coin with d decimals whose whole unit is worth unitPrice.
HopQuote(amountIn, d, unitPrice) ==
    (amountIn \div Pow10(d)) * unitPrice * Pow10(USDC_DECIMALS)

\* getHopAggregatorPrice(tokenType): Number(amountOut) / 1e6 when the quote
\* has an amount and the price is valid; null otherwise, every failure being
\* caught inside the operation.
getHopAggregatorPrice(answer, amountOut) ==
    IF answer = "quote" /\ amountOut # 0
          /\ isValidPrice(Num(amountOut \div Pow10(USDC_DECIMALS)))
    THEN Num(amountOut \div Pow10(USDC_DECIMALS))
    ELSE Null

\* A getHopAggregatorPrice call: the coin's decimals and unit value, the
\* amount_in it asked a quote for, the answer, and its result.
HopCall(d, unitPrice, answer) ==
    [decimals |-> d, unitPrice |-> unitPrice, answer |-> answer,
     amountIn |-> HOP_AMOUNT_IN,
     result |-> getHopAggregatorPrice(
                    answer, HopQuote(HOP_AMOUNT_IN, d, unitPrice))]

NoHopCall ==
    [decimals |-> 0, unitPrice |-> 0, answer |-> "none", amountIn |-> 0,
     result |-> NoAnswer]

\* ------------------------------------ DexScreener by SUI pair (source 8)

\* The most pairs the search of getDexScreenerViaSuiPrice answers with.
MaxScanPairs == 3

\* The address of SUI that the adapter looks for in quoteToken.
SUI_LONG ==
    "0x0000000000000000000000000000000000000000000000000000000000000002::sui::SUI"

\* The pairs listed: the token the pair is quoted in, and priceUsd.
QuotedPairs ==
    [quoteToken : {[address |-> SUI_LONG, symbol |-> "SUI"],
                   [address |-> "0xdba::usdc::USDC", symbol |-> "USDC"]},
     priceUsd : {"1", "2", "abc"}]

QuotedPairLists == UNION {[1..n -> QuotedPairs] : n \in 0..MaxScanPairs}

\* What the search request answers.
ScanAnswers ==
    {[status |-> st, pairs |-> <<>>] : st \in {"throws", "not ok"}}
    \cup {[status |-> "ok", pairs |-> l] : l \in QuotedPairLists}

\* p.quoteToken?.address === '0x00...02::sui::SUI' ||
\* p.quoteToken?.symbol === 'SUI'
QuotedInSui(p) ==
    p.quoteToken.address = SUI_LONG \/ p.quoteToken.symbol = "SUI"

\* `for (const pair of data.pairs)`: the price of the first pair with a
\* valid price; null when there is none.
AnyPairPrice(pairs) ==
    LET priced == {i \in 1..Len(pairs) :
                      isValidPrice(Number(pairs[i].priceUsd))}
    IN  IF priced = {} THEN Null ELSE Number(pairs[find(priced)].priceUsd)

\* getDexScreenerViaSuiPrice(tokenType): the price of the first pair quoted
\* in SUI when it is valid, else that of the first pair with a valid price.
\* Every failure is caught inside the operation.
getDexScreenerViaSuiPrice(answer) ==
    LET pairs == answer.pairs
        suiPair == find({i \in 1..Len(pairs) : QuotedInSui(pairs[i])})
    IN  IF answer.status # "ok" \/ pairs = <<>> THEN Null
        ELSE IF suiPair # 0 /\ isValidPrice(Number(pairs[suiPair].priceUsd))
        THEN Number(pairs[suiPair].priceUsd)
        ELSE AnyPairPrice(pairs)

\* A getDexScreenerViaSuiPrice call: the answer to its search, its result.
ViaSuiCall(answer) ==
    [answer |-> answer, result |-> getDexScreenerViaSuiPrice(answer)]

NoViaSuiCall == [answer |-> NotAsked, result |-> NoAnswer]

\* ------------------------- Aftermath (source 6), 7k batch lookup (source 7)

\* A coin type other than the one asked for.
OTHER_COIN == "0xdef::mod::OTH"

\* The entries of a response, in the order of Object.keys: a coin type and
\* the price reported for it; no coin type twice.
BatchEntries == [key : {TOK, OTHER_COIN}, price : {Num(0), Num(1), Num(2)}]

BatchObjects ==
    {l \in UNION {[1..n -> BatchEntries] : n \in 0..2} :
        \A i, j \in 1..Len(l) : l[i].key = l[j].key => i = j}

\* What the batch request answers: the request fails; a non-OK status (a
\* null result of the SDK); an object of entries.
BatchAnswers ==
    {[status |-> st, entries |-> <<>>] : st \in {"throws", "not ok"}}
    \cup {[status |-> "ok", entries |-> l] : l \in BatchObjects}

\* object[key], Null standing for undefined.
Lookup(entries, key) ==
    LET at == {i \in 1..Len(entries) : entries[i].key = key}
    IN  IF at = {} THEN Null ELSE entries[CHOOSE i \in at : TRUE].price

\* object[Object.keys(object)[0]]
FirstEntry(entries) == IF entries = <<>> THEN Null ELSE entries[1].price

\* data?.[tokenType] || data?.[Object.keys(data)[0]], then .price, of
\* getAftermathPrice: the entry of the coin type when there is one, else
\* the first entry.
AftermathPriceInfo(entries, coinType) ==
    IF Lookup(entries, coinType) # Null THEN Lookup(entries, coinType)
    ELSE FirstEntry(entries)

\* priceMap[tokenType] || priceMap[Object.keys(priceMap)[0]] of
\* get7kBatchPrice: the price of the coin type unless it is missing or 0,
\* else the first entry.
BatchPriceOrFirst(entries, coinType) ==
    IF Lookup(entries, coinType) = Null
          \/ StrictEqZero(Lookup(entries, coinType))
    THEN FirstEntry(entries)
    ELSE Lookup(entries, coinType)

getAftermathPrice(coinType, answer) ==
    IF answer.status = "ok"
          /\ isValidPrice(AftermathPriceInfo(answer.entries, coinType))
    THEN AftermathPriceInfo(answer.entries, coinType)
    ELSE Null

get7kBatchPrice(coinType, answer) ==
    IF answer.status = "ok"
          /\ isValidPrice(BatchPriceOrFirst(answer.entries, coinType))
    THEN BatchPriceOrFirst(answer.entries, coinType)
    ELSE Null

\* A call of one of the two adapters: the adapter, its argument, the answer
\* and its result.
BatchCall(adapter, coinType, answer) ==
    [adapter |-> adapter, arg |-> coinType, answer |-> answer,
     result |-> IF adapter = "Aftermath"
                THEN getAftermathPrice(coinType, answer)
                ELSE get7kBatchPrice(coinType, answer)]

NoBatchCall ==
    [adapter |-> "none", arg |-> Undefined,
     answer |-> [status |-> "none", entries |-> <<>>], result |-> NoAnswer]

\* ------------------------------------------- CronService.updateSuiPrice

\* What getSuiPrice() of the 7k SDK answers: it raises, or a number.
SdkAnswers == RawAnswers

\* What the CoinGecko request of updateSuiPrice answers: the request raises
\* (Thrown), a non-OK status (NoAnswer), no sui.usd field (Null), the field.
SuiGeckoAnswers == {Thrown, NoAnswer, Null, Num(0), Num(2)}

\* suiPrice after the first try block: null when getSuiPrice raised.
AfterSdk(sdk) == IF sdk = Thrown THEN Null ELSE sdk

\* !suiPrice || isNaN(suiPrice) || !isFinite(suiPrice) || suiPrice <= 0
\* Faulty variant: CoinGecko is asked only when the SDK gave nothing.
SuiFallbackNeeded_onlyWhenNull(suiPrice) == suiPrice = Null

SuiFallbackNeeded(suiPrice) ==
    \/ suiPrice = Null
    \/ StrictEqZero(suiPrice)
    \/ suiPrice = NaN
    \/ suiPrice = Infinity
    \/ suiPrice.kind = "number" /\ suiPrice.val <= 0

\* suiPrice after the fallback: `data?.sui?.usd ?? null` when the response
\* is OK, what it was when the request raised or the status is not OK.
AfterCoinGecko(suiPrice, gecko) ==
    IF gecko \in {Thrown, NoAnswer} THEN suiPrice ELSE gecko

\* suiPrice !== null && !isNaN(suiPrice) && isFinite(suiPrice) && suiPrice > 0
SuiPriceSavable(suiPrice) ==
    /\ suiPrice # Null
    /\ suiPrice # NaN
    /\ suiPrice # Infinity
    /\ suiPrice.kind = "number"
    /\ suiPrice.val > 0

\* DatabaseService.saveSuiPrice: the price joins the history with its time.
saveSuiPrice(history, price, t) ==
    history \cup {[price |-> price, timestamp |-> t]}

\* The row updateSuiPrice saves to the tokens table.
SuiTokenRow(price, t) ==
    [coin_type |-> SUI, price_usd |-> price, last_update |-> t,
     metadata |-> "Sui"]

\* The record of a run of updateSuiPrice.
\*   sdk:     what getSuiPrice answered
\*   asked:   CoinGecko was queried; gecko: what it answered
\*   price:   suiPrice when the sources have been tried
\*   history, token: the write to the store came about
\*   raised:  the run ended by raising
SuiRun(sdk, asked, gecko, price, history, token, raised) ==
    [sdk |-> sdk, asked |-> asked, gecko |-> gecko, price |-> price,
     history |-> history, token |-> token, raised |-> raised]

NoSuiRun == SuiRun(NoAnswer, FALSE, NoAnswer, Null, FALSE, FALSE, FALSE)

\* -------------------------------------- CronService.updateZeroPriceTokens

\* price_usd = 0 OR price_usd IS NULL
\* Faulty variant: the zero sentinel is not selected.
ZeroOrNull_nullOnly(price) == price = Null

ZeroOrNull(price) == price = Null \/ StrictEqZero(price)

\* The coin types the SELECT of updateZeroPriceTokens returns.
ZeroPriceTokens(table) ==
    {r.coin_type : r \in {row \in table : ZeroOrNull(row.price_usd)}}

\* The orders in which the SELECT, which names none, can return them.
Orderings(S) ==
    {seq \in [1..Cardinality(S) -> S] : \A x \in S : \E i \in DOMAIN seq : seq[i] = x}

\* price !== null && !isNaN(price) && isFinite(price) && price > 0
ZeroJobPriceUsable(price) ==
    /\ price # Null
    /\ price # NaN
    /\ price # Infinity
    /\ price.kind = "number"
    /\ price.val > 0

\* UPDATE tokens SET price_usd = ?, last_update = ? WHERE coin_type = ?
UpdateTokenPrice(table, coinType, price, t) ==
    {IF r.coin_type = coinType
     THEN [r EXCEPT !.price_usd = price, !.last_update = t]
     ELSE r : r \in table}

\* What the job did with one token: the price getTokenPrice returned for
\* it, how the call's cache check ended, whether the call's own cache write
\* stored the price, and whether the token counted as updated or as failed.
Processed(coinType, read, price, cached, outcome) ==
    [coin_type |-> coinType, read |-> read, price |-> price,
     cached |-> cached, outcome |-> outcome]

\* The run of updateZeroPriceTokens.
\*   pc:        "idle" (no run yet), "token" (in the loop), "done"
\*   selected:  the coin types the SELECT returned, in its order
\*   processed: what the loop has done so far, token by token
\*   updated, failed: the two counters
\*   caught:    the catch around the whole job took an error
\*   raised:    the run ended by raising
ZeroRun(at, selected, processed, updated, failed, caught, raised) ==
    [pc |-> at, selected |-> selected, processed |-> processed,
     updated |-> updated, failed |-> failed, caught |-> caught,
     raised |-> raised]

NoZeroRun == ZeroRun("idle", <<>>, <<>>, 0, 0, FALSE, FALSE)

\* The catch around one token: the token counts as failed and the loop goes
\* on with the next.
\* Faulty variant: the error of one token ends the run.
TokenCatch_endsRun(run, entry) ==
    [run EXCEPT !.processed = Append(@, entry), !.failed = @ + 1,
                !.pc = "done", !.raised = TRUE]

TokenCatch(run, entry) ==
    [run EXCEPT !.processed = Append(@, entry), !.failed = @ + 1,
                !.pc = IF Len(run.processed) + 1 = Len(run.selected)
                       THEN "done" ELSE "token"]

\* The end of an iteration that raised nothing.
TokenDone(run, entry) ==
    [run EXCEPT !.processed = Append(@, entry),
                !.updated = IF entry.outcome = "updated" THEN @ + 1 ELSE @,
                !.failed = IF entry.outcome = "failed" THEN @ + 1 ELSE @,
                !.pc = IF Len(run.processed) + 1 = Len(run.selected)
                       THEN "done" ELSE "token"]

\* The catch around the whole job: the error is logged, the run ends and
\* raises nothing.
ZeroJobCatch == ZeroRun("done", <<>>, <<>>, 0, 0, TRUE, FALSE)

\* ------------------------------------------------- GET /price/:tokenType

\* DatabaseService.isTokenStale: the row is older than the cache duration.
isTokenStale(tokenData, t) ==
    \E r \in tokenData : t - r.last_update > CACHE_DURATION

\* token && token.price_usd > 0
HasPositivePrice(tokenData) ==
    \E r \in tokenData :
        \/ r.price_usd = Infinity
        \/ r.price_usd.kind = "number" /\ r.price_usd.val > 0

\* The handler answers from the row it read: `if (token && token.price_usd
\* > 0)` and `if (!isStale)`.
AnswersFromRow(tokenData, t) ==
    HasPositivePrice(tokenData) /\ ~isTokenStale(tokenData, t)

\* The status of the answer once getTokenPrice has returned price and the
\* handler has saved it (saved: saveToken did not raise).
\* Faulty variant: a price that is not valid is answered like an absent one.
StatusAfterCall_invalidIs404(price, saved) ==
    IF ~isValidPrice(price) THEN 404 ELSE IF saved THEN 200 ELSE 500

StatusAfterCall(price, saved) ==
    IF price = Null THEN 404 ELSE IF saved THEN 200 ELSE 500

\* The record of a request.
\*   pc:        "idle" (none yet), "price" (getTokenPrice is awaited), "done"
\*   tokenType: the path parameter
\*   time:      when the request arrived; row: what getToken answered then
\*   table:     the tokens table then, kept while the request is served
\*   called:    the handler reached getTokenPrice; price: what that returned
\*   wrote:     the table was written between arrival and answer
\*   status:    the HTTP status of the answer (0: none yet)
\*   fromCache: the answer's fromCache field ("none": the answer has none)
\*   body:      the answer's priceUSD or error
PriceRequest(at, t, time, row, table, called, price, wrote, status, fromCache, body) ==
    [pc |-> at, tokenType |-> t, time |-> time, row |-> row,
     table |-> table, called |-> called, price |-> price, wrote |-> wrote,
     status |-> status, fromCache |-> fromCache, body |-> body]

NoRequest ==
    PriceRequest("idle", Undefined, 0, {}, {}, FALSE, NoAnswer, FALSE, 0,
                 "none", Null)

\* ------------------------------- CoinGecko inside concurrent resolutions

\* The call is not inside getCoinGeckoPrice.
NotLooking == "not looking"

\* The argument getTokenPrice passes to getCoinGeckoPrice for a coin type.
CoinGeckoArg(coinType) == IF coinType = SUI THEN "sui" ELSE coinType

\* COINGECKO_ID_MAP as a getCoinGeckoPrice call for arg saw it when it
\* began: the call reads the entry of its argument, once, before its first
\* await.
MapAsSeen(map, arg, known) == [map EXCEPT ![arg] = known]

\* COINGECKO_ID_MAP when the call ends: the entries the call assigned are
\* written into the table as it is by then.
MapAfterCall(map, seen, left) ==
    [k \in DOMAIN map |-> IF left[k] # seen[k] THEN left[k] ELSE map[k]]

\* What the indexer and CoinGecko answer to the calls that overlap: the
\* indexer fails or names an ID, the search fails or finds the coin, the
\* price requests all answer no price or all answer one.
OverlapAnswers ==
    {src \in SourceAnswers :
        /\ src.indexer \in {"throws", IndexerId}
        /\ src.search \in
              {[status |-> "throws", coins |-> <<>>],
               [status |-> "ok",
                coins |-> <<[symbol |-> "Tok", platforms |-> {"Sui"}]>>]}
        /\ \E p \in {Null, Num(1)} : \A id \in PriceIds : src.price[id] = p}

\* --------------------------------------------------------------------- Init

Init ==
    /\ dbService = FALSE
    /\ tokens = {}
    /\ now = 0
    /\ pc = [c \in Calls |-> "idle"]
    /\ tokenType = [c \in Calls |-> Undefined]
    /\ cacheRead = [c \in Calls |-> "none"]
    /\ invoked = [c \in Calls |-> <<>>]
    /\ last = NoStep
    /\ racing = NoRace
    /\ retry = NoRetry
    /\ walk = NoWalk
    /\ COINGECKO_ID_MAP = KnownIds
    /\ sources = NoSources
    /\ cg = NoCall
    /\ before = NoCall
    /\ dex = NoDexCall
    /\ hop = NoHopCall
    /\ viaSui = NoViaSuiCall
    /\ batch = NoBatchCall
    /\ suiJob = NoSuiRun
    /\ suiHistory = {}
    /\ zeroJob = NoZeroRun
    /\ route = NoRequest
    /\ lookup = [c \in Calls |-> NotLooking]

\* ------------------------------------------------------------------ actions

\* PriceService.initialize(database).
Initialize ==
    /\ ~dbService
    /\ dbService' = TRUE
    /\ UNCHANGED <<tokens, now, callVars, retryVars, adapterVars, jobVars>>

\* Clock advances taken to reach time t.
TicksTaken(t) == t \div CACHE_DURATION

Tick(d) ==
    /\ TicksTaken(now) < MaxTicks
    /\ now' = now + d
    /\ UNCHANGED <<dbService, tokens, callVars, retryVars, adapterVars, jobVars>>

\* GET /mmt-tokens saves a token with the price the MMT SDK reports.
MmtTokens(coinType, p) ==
    /\ tokens' = saveToken(tokens, [coin_type |-> coinType, price_usd |-> p,
                                    last_update |-> now, metadata |-> "mmt"])
    /\ UNCHANGED <<dbService, now, callVars, retryVars, adapterVars, jobVars>>

\* The call returns: its slot is free again.
Finish(c) ==
    /\ pc' = [pc EXCEPT ![c] = "idle"]
    /\ tokenType' = [tokenType EXCEPT ![c] = Undefined]
    /\ cacheRead' = [cacheRead EXCEPT ![c] = "none"]
    /\ invoked' = [invoked EXCEPT ![c] = <<>>]

\* getTokenPrice(t) is called and runs up to its first await on a source:
\* the cache check, and on a miss the call of the first adapter.  readFails
\* says whether the table read raises.
GetTokenPriceStep(c, t, readFails) ==
    /\ pc[c] = "idle"
    /\ IF t = Undefined
       THEN \* extractSymbol(undefined) raises inside the try block
            /\ Finish(c)
            /\ last' = Step("call", c, t, "none", NoAnswer, 0, TRUE,
                            TopLevelCatch, 0, FALSE)
            /\ UNCHANGED tokens
       ELSE LET failed == ~dbService \/ readFails
                cachedPrice ==
                    IF failed THEN getCachedPriceCatch
                    ELSE getCachedPrice(getToken(tokens, t), now)
                read == IF failed THEN "error"
                        ELSE IF cachedPrice # Null THEN "hit" ELSE "miss"
            IN  IF cachedPrice = Thrown
                THEN /\ Finish(c)
                     /\ last' = Step("call", c, t, read, NoAnswer, 0, TRUE,
                                     TopLevelCatch, 0, FALSE)
                     /\ UNCHANGED tokens
                ELSE IF cachedPrice # Null
                THEN /\ Finish(c)
                     /\ last' = Step("call", c, t, read, NoAnswer, 0, TRUE,
                                     cachedPrice, 0, FALSE)
                     /\ tokens' = CacheHit(tokens, t, cachedPrice, now)
                ELSE /\ pc' = [pc EXCEPT ![c] = "source"]
                     /\ tokenType' = [tokenType EXCEPT ![c] = t]
                     /\ cacheRead' = [cacheRead EXCEPT ![c] = read]
                     /\ invoked' = [invoked EXCEPT ![c] = <<Chain(t)[1]>>]
                     /\ last' = Step("call", c, t, read, NoAnswer, 0, FALSE,
                                     Null, 0, FALSE)
                     /\ UNCHANGED tokens
    /\ racing' = IF \A c2 \in Calls \ {c} : pc[c2] = "idle"
                 THEN NoRace ELSE racing

\* The step, where the adapters are not looked into.
GetTokenPrice(c, t, readFails) ==
    /\ GetTokenPriceStep(c, t, readFails)
    /\ UNCHANGED <<dbService, now, retryVars, adapterVars, jobVars>>

\* The adapter a call waits for returns; raw is what its source answered.
\* A valid price is handed to setCachedPrice and returned; the write is one
\* step with the adapter's return (writeFails: saveToken raises; with
\* dbService undefined the write always raises).
AdapterReturnStep(c, raw, writeFails) ==
    /\ pc[c] = "source"
    /\ LET t == tokenType[c]
           p == AdapterResult(raw)
           n == Len(invoked[c])
           chain == Chain(t)
           todo == AfterAdapter(p, n, chain)
           ok == dbService /\ ~writeFails
       IN  IF p = Thrown
           THEN \* an error that leaves the adapter ends the try block
                /\ Finish(c)
                /\ last' = Step("answer", c, t, cacheRead[c], raw, n, TRUE,
                                TopLevelCatch, 0, FALSE)
                /\ UNCHANGED <<tokens, racing>>
           ELSE IF todo = "cache"
           THEN /\ tokens' = setCachedPrice(tokens, t, p, now, ok)
                /\ racing' = IF ok /\ Overlaps(c, t)
                             THEN [call |-> c, tokenType |-> t, price |-> p]
                             ELSE racing
                /\ Finish(c)
                /\ last' = Step("answer", c, t, cacheRead[c], raw, n, TRUE,
                                ReturnAfterPut(p, ok), 1, ok)
           ELSE IF todo = "next"
           THEN /\ invoked' = [invoked EXCEPT ![c] = Append(@, chain[n + 1])]
                /\ last' = Step("answer", c, t, cacheRead[c], raw, n, FALSE,
                                Null, 0, FALSE)
                /\ UNCHANGED <<pc, tokenType, cacheRead, tokens, racing>>
           ELSE /\ tokens' = NoPriceFound(tokens, t, now)
                /\ UNCHANGED racing
                /\ Finish(c)
                /\ last' = Step("answer", c, t, cacheRead[c], raw, n, TRUE,
                                Null, 0, FALSE)

\* The step, where the adapters are not looked into.
AdapterReturn(c, raw, writeFails) ==
    /\ AdapterReturnStep(c, raw, writeFails)
    /\ UNCHANGED <<dbService, now, retryVars, adapterVars, jobVars>>

\* No call is in progress.
Quiet == \A c \in Calls : pc[c] = "idle"

\* What the environment does: the service is initialised, time passes, the
\* /mmt-tokens handler writes the table.
Environment ==
    \/ Initialize
    \/ \E d \in {CACHE_DURATION, CACHE_DURATION + 1} : Tick(d)
    \/ \E t \in CoinTypes, p \in MmtPrices : MmtTokens(t, p)

\* Callers take turns: a call begins when no other is in progress.
Next ==
    \/ Environment
    \/ \E c \in Calls, t \in CoinTypes \cup {Undefined}, f \in BOOLEAN :
          Quiet /\ GetTokenPrice(c, t, f)
    \/ \E c \in Calls, raw \in RawAnswers, f \in BOOLEAN :
          AdapterReturn(c, raw, f)

Spec == Init /\ [][Next]_vars

\* Calls overlap freely; the clock stands still and no one else writes.
NextConcurrent ==
    \/ Initialize
    \/ \E c \in Calls, t \in CoinTypes \cup {Undefined}, f \in BOOLEAN :
          GetTokenPrice(c, t, f)
    \/ \E c \in Calls, raw \in RawAnswers, f \in BOOLEAN :
          AdapterReturn(c, raw, f)

SpecConcurrent == Init /\ [][NextConcurrent]_vars

\* ------------------------------------------- the wallet handler's own write

\* `price || 0` of GET /wallet/:address: a falsy price (null, 0, NaN) is
\* replaced by 0.
PriceOrZero(price) ==
    IF price = Null \/ price = NaN \/ StrictEqZero(price) THEN Num(0)
    ELSE price

\* GET /wallet/:address, for one coin of the wallet: its getTokenPrice call
\* c has returned; the handler saves the coin with the price it got, or with
\* 0 when it got none.
WalletSaveToken(c) ==
    /\ last.step \in {"call", "answer"}
    /\ last.done
    /\ last.call = c
    /\ last.tokenType \in CoinTypes
    /\ tokens' = saveToken(tokens, [coin_type |-> last.tokenType,
                                    price_usd |-> PriceOrZero(last.result),
                                    last_update |-> now,
                                    metadata |-> "wallet"])
    /\ last' = [last EXCEPT !.step = "saved"]
    /\ UNCHANGED <<dbService, now, pc, tokenType, cacheRead, invoked, racing,
                   retryVars, adapterVars, jobVars>>

\* What the sources answer to the wallet handler's calls.
WalletAnswers == {Thrown, Num(1)}

\* Wallet queries: every getTokenPrice call is made by the wallet handler,
\* which saves the coin when the call has returned.
NextWallet ==
    \/ Initialize
    \/ \E d \in {CACHE_DURATION, CACHE_DURATION + 1} : Tick(d)
    \/ \E c \in Calls, t \in CoinTypes : Quiet /\ GetTokenPrice(c, t, FALSE)
    \/ \E c \in Calls, raw \in WalletAnswers : AdapterReturn(c, raw, FALSE)
    \/ \E c \in Calls : Quiet /\ WalletSaveToken(c)

SpecWallet == Init /\ [][NextWallet]_vars

\* ------------------------------------------- adapters, attempt by attempt

\* The adapter the resolution awaits has returned when its run has.
Settle(w, r) ==
    IF r.pc = "returned" /\ w.chain # <<>>
    THEN [w EXCEPT !.open = @ \ {w.chain[w.pos]}]
    ELSE w

\* retryOperation is called on its own, with any arguments.
RetryOperation(maxRetries, delay) ==
    /\ retry.pc = "idle"
    /\ walk.chain = <<>>
    /\ retry' = RetryStarted(maxRetries, delay)
    /\ UNCHANGED <<walk, storeVars, adapterVars, jobVars>>

\* `return await operation()`: the attempt in flight completes with v.
OperationCompletes(v) ==
    /\ retry.pc = "operation"
    /\ retry' = [retry EXCEPT !.pc = "returned", !.attempt = v, !.out = v]
    /\ walk' = Settle(walk, retry')
    /\ UNCHANGED <<storeVars, adapterVars, jobVars>>

\* The attempt in flight raises (transport error, timeout, parse error):
\* the catch returns null after the last attempt, and sets the timer of the
\* backoff wait otherwise.
OperationRaises ==
    /\ retry.pc = "operation"
    /\ retry' = IF LastAttempt(retry.i, retry.maxRetries)
                THEN [retry EXCEPT !.pc = "returned", !.attempt = Thrown,
                                   !.out = RetryExhausted]
                ELSE [retry EXCEPT !.pc = "timer", !.attempt = Thrown,
                                   !.elapsed = 0]
    /\ walk' = Settle(walk, retry')
    /\ UNCHANGED <<storeVars, adapterVars, jobVars>>

\* Time passes while the timer is pending.
TimePasses ==
    /\ retry.pc = "timer"
    /\ retry.elapsed <= BackoffDelay(retry.delay, retry.i)
    /\ retry' = [retry EXCEPT !.elapsed = @ + TimeStep]
    /\ UNCHANGED <<walk, storeVars, adapterVars, jobVars>>

\* setTimeout resolves, not before its delay has elapsed; the loop goes on
\* to its next attempt, or ends (`return null`) when there is none.
TimerFires ==
    /\ retry.pc = "timer"
    /\ retry.elapsed >= BackoffDelay(retry.delay, retry.i)
    /\ retry' = IF retry.i + 1 < retry.maxRetries
                THEN [retry EXCEPT !.pc = "operation", !.i = @ + 1,
                                   !.count = @ + 1, !.attempt = NoAnswer,
                                   !.waited = retry.elapsed]
                ELSE [retry EXCEPT !.pc = "returned", !.i = @ + 1,
                                   !.out = Null]
    /\ walk' = Settle(walk, retry')
    /\ UNCHANGED <<storeVars, adapterVars, jobVars>>

\* The caller of a retryOperation called on its own takes its result.
RetryReturns ==
    /\ retry.pc = "returned"
    /\ walk.chain = <<>>
    /\ retry' = NoRetry
    /\ UNCHANGED <<walk, storeVars, adapterVars, jobVars>>

\* getTokenPrice(t) has missed the cache and calls its first adapter.
StartWalk(t) ==
    /\ retry.pc = "idle"
    /\ walk.chain = <<>>
    /\ walk' = [chain |-> Chain(t), pos |-> 1, open |-> {Chain(t)[1]},
                result |-> NoAnswer]
    /\ retry' = RetryStarted(AdapterRetries(Chain(t)[1]), DEFAULT_DELAY)
    /\ UNCHANGED <<storeVars, adapterVars, jobVars>>

\* The orchestrator resumes after `await`: it returns the adapter's price,
\* calls the next adapter, or gives up.
AdapterDone ==
    /\ walk.chain # <<>>
    /\ walk.result = NoAnswer
    /\ Awaited(retry)
    /\ LET p == retry.out
           todo == AfterAdapter(p, walk.pos, walk.chain)
       IN  IF todo = "next"
           THEN /\ walk' = [walk EXCEPT
                              !.pos = @ + 1,
                              !.open = @ \cup {walk.chain[walk.pos + 1]}]
                /\ retry' = RetryStarted(
                              AdapterRetries(walk.chain[walk.pos + 1]),
                              DEFAULT_DELAY)
           ELSE /\ walk' = [walk EXCEPT
                              !.result = IF todo = "cache" THEN p ELSE Null]
                /\ retry' = NoRetry
    /\ UNCHANGED <<storeVars, adapterVars, jobVars>>

\* getTokenPrice returns.
WalkReturns ==
    /\ walk.result # NoAnswer
    /\ walk' = NoWalk
    /\ retry' = NoRetry
    /\ UNCHANGED <<storeVars, adapterVars, jobVars>>

NextRetry ==
    \/ \E m \in 1..MaxRetries, d \in Delays : RetryOperation(m, d)
    \/ \E v \in OperationResults : OperationCompletes(v)
    \/ OperationRaises
    \/ TimePasses
    \/ TimerFires
    \/ RetryReturns
    \/ \E t \in CoinTypes : StartWalk(t)
    \/ AdapterDone
    \/ WalkReturns

SpecRetry == Init /\ [][NextRetry]_vars

\* ------------------------------------------- CoinGecko, one call at a time

\* What CoinGecko and the indexer answer is settled before the calls that
\* are followed: every call gets the same answer to the same request.
SourcesAnswer ==
    /\ sources = NoSources
    /\ cg = NoCall
    /\ sources' \in SourceAnswers
    /\ UNCHANGED <<COINGECKO_ID_MAP, cg, before, dex, hop, storeVars, retryVars, jobVars>>

\* getTokenPrice reaches CoinGecko: getCoinGeckoPrice(arg) runs to its end.
GetCoinGeckoPrice(arg) ==
    LET o == getCoinGeckoPrice(COINGECKO_ID_MAP, arg, sources)
        record == CallRecord(arg, COINGECKO_ID_MAP[arg], o)
    IN  /\ COINGECKO_ID_MAP' = o.map
        /\ cg' = record
        /\ before' = cg
        /\ UNCHANGED <<sources, dex, hop, storeVars, retryVars, jobVars>>

NextCoinGecko ==
    \/ SourcesAnswer
    \/ \E arg \in CoinGeckoArgs : GetCoinGeckoPrice(arg)

SpecCoinGecko == Init /\ [][NextCoinGecko]_vars

\* ----------------------------- DexScreener and Hop, one call at a time

\* getTokenPrice reaches DexScreener: getDexScreenerPrice(t) runs to its
\* end; contract is the answer to the search by contract address.
GetDexScreenerPrice(t, full, contract) ==
    /\ dex = NoDexCall
    /\ hop = NoHopCall
    /\ dex' = DexCall(t, full, contract)
    /\ UNCHANGED <<COINGECKO_ID_MAP, sources, cg, before, hop, storeVars,
                   retryVars, jobVars>>

\* getTokenPrice takes the adapter's result.
DexScreenerReturns ==
    /\ dex # NoDexCall
    /\ dex' = NoDexCall
    /\ UNCHANGED <<COINGECKO_ID_MAP, sources, cg, before, hop, storeVars,
                   retryVars, jobVars>>

\* getTokenPrice reaches Hop: getHopAggregatorPrice runs to its end for a
\* coin with d decimals whose whole unit is worth unitPrice.
GetHopAggregatorPrice(d, unitPrice, answer) ==
    /\ dex = NoDexCall
    /\ hop = NoHopCall
    /\ hop' = HopCall(d, unitPrice, answer)
    /\ UNCHANGED <<COINGECKO_ID_MAP, sources, cg, before, dex, storeVars,
                   retryVars, jobVars>>

HopReturns ==
    /\ hop # NoHopCall
    /\ hop' = NoHopCall
    /\ UNCHANGED <<COINGECKO_ID_MAP, sources, cg, before, dex, storeVars,
                   retryVars, jobVars>>

\* Neither adapter is running.
AdaptersIdle == dex = NoDexCall /\ hop = NoHopCall

NextAdapters ==
    \/ /\ AdaptersIdle
       /\ \E t \in CoinTypes, full \in DexAnswers :
             \E contract \in IF NeedsContractQuery(full) THEN DexAnswers
                             ELSE {NotAsked} :
                GetDexScreenerPrice(t, full, contract)
    \/ DexScreenerReturns
    \/ /\ AdaptersIdle
       /\ \E d \in CoinDecimals, unitPrice \in UnitPrices, a \in HopAnswers :
             GetHopAggregatorPrice(d, unitPrice, a)
    \/ HopReturns

SpecAdapters == Init /\ [][NextAdapters]_vars

\* ---------------------- the last three adapters, one call at a time

\* None of the three adapters is running.
FallbacksIdle == viaSui = NoViaSuiCall /\ batch = NoBatchCall

\* getTokenPrice reaches its last adapter: getDexScreenerViaSuiPrice runs to
\* its end.
GetDexScreenerViaSuiPrice(answer) ==
    /\ FallbacksIdle
    /\ viaSui' = ViaSuiCall(answer)
    /\ UNCHANGED <<batch, storeVars, retryVars, adapterVars, cronVars>>

DexScreenerViaSuiReturns ==
    /\ viaSui # NoViaSuiCall
    /\ viaSui' = NoViaSuiCall
    /\ UNCHANGED <<batch, storeVars, retryVars, adapterVars, cronVars>>

\* getTokenPrice reaches Aftermath or the 7k batch lookup: the adapter runs
\* to its end.
GetBatchPrice(adapter, answer) ==
    /\ FallbacksIdle
    /\ batch' = BatchCall(adapter, TOK, answer)
    /\ UNCHANGED <<viaSui, storeVars, retryVars, adapterVars, cronVars>>

BatchReturns ==
    /\ batch # NoBatchCall
    /\ batch' = NoBatchCall
    /\ UNCHANGED <<viaSui, storeVars, retryVars, adapterVars, cronVars>>

NextFallbacks ==
    \/ /\ FallbacksIdle
       /\ \E answer \in ScanAnswers : GetDexScreenerViaSuiPrice(answer)
    \/ DexScreenerViaSuiReturns
    \/ /\ FallbacksIdle
       /\ \E adapter \in {"Aftermath", "7kBatch"}, answer \in BatchAnswers :
             GetBatchPrice(adapter, answer)
    \/ BatchReturns

SpecFallbacks == Init /\ [][NextFallbacks]_vars

\* ---------------------------------------- the scheduled SUI price update

\* CronService.updateSuiPrice(): the SDK, CoinGecko if needed, and the two
\* writes.  historyFails, tokenFails: the write raises; a write that raises
\* ends the run (the catch of the method raises the error again).
UpdateSuiPrice(sdk, gecko, historyFails, tokenFails) ==
    LET first == AfterSdk(sdk)
        asked == SuiFallbackNeeded(first)
        price == IF asked THEN AfterCoinGecko(first, gecko) ELSE first
        save == SuiPriceSavable(price)
        history == save /\ ~historyFails
        token == history /\ ~tokenFails
    IN  /\ suiHistory' = IF history THEN saveSuiPrice(suiHistory, price, now)
                         ELSE suiHistory
        /\ tokens' = IF token THEN saveToken(tokens, SuiTokenRow(price, now))
                     ELSE tokens
        /\ suiJob' = SuiRun(sdk, asked, IF asked THEN gecko ELSE NoAnswer,
                            price, history, token, save /\ ~token)
        /\ UNCHANGED <<dbService, now, callVars, retryVars, adapterVars,
                       viaSui, batch, zeroJob, route, lookup>>

\* The scheduled handler runs updateSuiPrice, run after run; what the run
\* does is the same at any time of the clock.
NextSuiJob ==
    \E sdk \in SdkAnswers, gecko \in SuiGeckoAnswers, hf, tf \in BOOLEAN :
        UpdateSuiPrice(sdk, gecko, hf, tf)

SpecSuiJob == Init /\ [][NextSuiJob]_vars

\* -------------------------------- the scheduled update of unpriced tokens

\* The job is not in its loop.
JobAtRest == zeroJob.pc # "token"

\* updateZeroPriceTokens() begins: the SELECT.  queryFails: the query raises.
SelectZeroPriceTokens(queryFails, selected) ==
    /\ JobAtRest
    /\ dbService
    /\ selected \in Orderings(ZeroPriceTokens(tokens))
    /\ zeroJob' = IF queryFails THEN ZeroJobCatch
                  ELSE ZeroRun(IF selected = <<>> THEN "done" ELSE "token",
                               selected, <<>>, 0, 0, FALSE, FALSE)
    /\ last' = [last EXCEPT !.step = "job"]
    /\ UNCHANGED <<dbService, tokens, now, pc, tokenType, cacheRead, invoked,
                   racing, retryVars, adapterVars, viaSui, batch, suiJob,
                   suiHistory, route, lookup>>

\* The token the loop is at.
CurrentToken == zeroJob.selected[Len(zeroJob.processed) + 1]

\* The loop calls getTokenPrice for its token.
ZeroJobGetTokenPrice(c, readFails) ==
    /\ zeroJob.pc = "token"
    /\ last.step = "job"
    /\ GetTokenPrice(c, CurrentToken, readFails)

\* getTokenPrice has returned: the price is tested and written, and the
\* token is counted.  updateFails: the UPDATE raises.
ZeroJobAfterCall(updateFails) ==
    /\ zeroJob.pc = "token"
    /\ last.step \in {"call", "answer"}
    /\ last.done
    /\ LET price == last.result
           usable == ZeroJobPriceUsable(price)
           entry == Processed(CurrentToken, last.read, price, last.stored,
                              IF usable /\ ~updateFails THEN "updated"
                              ELSE "failed")
       IN  /\ zeroJob' = IF usable /\ updateFails
                         THEN TokenCatch(zeroJob, entry)
                         ELSE TokenDone(zeroJob, entry)
           /\ tokens' = IF usable /\ ~updateFails
                        THEN UpdateTokenPrice(tokens, CurrentToken, price, now)
                        ELSE tokens
    /\ last' = [last EXCEPT !.step = "job"]
    /\ UNCHANGED <<dbService, now, pc, tokenType, cacheRead, invoked, racing,
                   retryVars, adapterVars, viaSui, batch, suiJob, suiHistory,
                   route, lookup>>

\* The scheduled job and the wallet handler, which leaves the unpriced
\* tokens the job selects; the handler's requests are served between the
\* iterations of no run.
NextZeroJob ==
    \/ Initialize
    \/ /\ JobAtRest /\ Quiet /\ dbService
       /\ \E c \in Calls, t \in CoinTypes : GetTokenPrice(c, t, FALSE)
    \/ \E c \in Calls, raw \in WalletAnswers, f \in BOOLEAN :
          AdapterReturn(c, raw, f)
    \/ /\ JobAtRest /\ Quiet
       /\ \E c \in Calls : WalletSaveToken(c)
    \/ /\ Quiet
       /\ \E f \in BOOLEAN, selected \in Orderings(ZeroPriceTokens(tokens)) :
             SelectZeroPriceTokens(f, selected)
    \/ /\ Quiet
       /\ \E c \in Calls, f \in BOOLEAN : ZeroJobGetTokenPrice(c, f)
    \/ \E f \in BOOLEAN : ZeroJobAfterCall(f)

SpecZeroJob == Init /\ [][NextZeroJob]_vars

\* ------------------------------------------- the price route, per request

\* No request is being served.
RouteAtRest == route.pc # "price"

\* GET /price/:tokenType arrives: the row is read and, when it has a price
\* and is not stale, answered.  readFails: getToken or isTokenStale raises.
PriceRouteBegins(t, readFails) ==
    /\ RouteAtRest
    /\ LET tokenData == getToken(tokens, t)
       IN  route' =
             IF readFails
             THEN PriceRequest("done", t, now, {}, {}, FALSE, NoAnswer,
                               FALSE, 500, "none", Thrown)
             ELSE IF AnswersFromRow(tokenData, now)
             THEN PriceRequest("done", t, now, tokenData, {}, FALSE,
                               NoAnswer, FALSE, 200, "true",
                               (CHOOSE r \in tokenData : TRUE).price_usd)
             ELSE PriceRequest("price", t, now, tokenData, tokens, FALSE,
                               NoAnswer, FALSE, 0, "none", Null)
    /\ last' = [last EXCEPT !.step = "route"]
    /\ UNCHANGED <<dbService, tokens, now, pc, tokenType, cacheRead, invoked,
                   racing, retryVars, adapterVars, viaSui, batch, suiJob,
                   suiHistory, zeroJob, lookup>>

\* The handler calls getTokenPrice.
PriceRouteGetTokenPrice(c, readFails) ==
    /\ route.pc = "price"
    /\ last.step = "route"
    /\ GetTokenPrice(c, route.tokenType, readFails)

\* getTokenPrice has returned: 404 for null, or the price is saved and
\* answered.  saveFails: saveToken raises, and the catch answers 500.
PriceRouteAfterCall(saveFails) ==
    /\ route.pc = "price"
    /\ last.step \in {"call", "answer"}
    /\ last.done
    /\ LET price == last.result
           status == StatusAfterCall(price, ~saveFails)
       IN  /\ tokens' = IF status = 200
                        THEN saveToken(tokens,
                                       [coin_type |-> route.tokenType,
                                        price_usd |-> price,
                                        last_update |-> now,
                                        metadata |-> "{}"])
                        ELSE tokens
           /\ route' = [route EXCEPT
                          !.pc = "done", !.called = TRUE, !.price = price,
                          !.table = {}, !.wrote = tokens' # route.table,
                          !.status = status,
                          !.fromCache = IF status = 200 THEN "false"
                                        ELSE "none",
                          !.body = IF status = 200 THEN price
                                   ELSE IF status = 500 THEN Thrown
                                   ELSE Null]
    /\ last' = [last EXCEPT !.step = "route"]
    /\ UNCHANGED <<dbService, now, pc, tokenType, cacheRead, invoked, racing,
                   retryVars, adapterVars, viaSui, batch, suiJob, suiHistory,
                   zeroJob, lookup>>

\* Requests to the price route, one at a time, with the clock and the
\* /mmt-tokens handler, which writes rows between the requests.
NextPriceRoute ==
    \/ Initialize
    \/ Tick(CACHE_DURATION + 1)
    \/ /\ RouteAtRest
       /\ \E t \in CoinTypes, p \in MmtPrices : MmtTokens(t, p)
    \/ /\ Quiet /\ dbService
       /\ \E t \in CoinTypes, f \in BOOLEAN : PriceRouteBegins(t, f)
    \/ /\ Quiet
       /\ \E c \in Calls : PriceRouteGetTokenPrice(c, FALSE)
    \/ \E c \in Calls, raw \in WalletAnswers : AdapterReturn(c, raw, FALSE)
    \/ \E f \in BOOLEAN : PriceRouteAfterCall(f)

SpecPriceRoute == Init /\ [][NextPriceRoute]_vars

\* ------------------------- resolutions that overlap, CoinGecko looked into

\* The adapter call c waits for.
AwaitedAdapter(c) == invoked[c][Len(invoked[c])]

\* The step of call c has called getCoinGeckoPrice, which reads the entry of
\* its argument before its first await; or it has called another adapter, or
\* returned.
LookupBegins(c) ==
    lookup' = [lookup EXCEPT ![c] =
                 IF pc'[c] = "source"
                    /\ invoked'[c][Len(invoked'[c])] = "CoinGecko"
                 THEN KnownId(COINGECKO_ID_MAP,
                              CoinGeckoArg(tokenType'[c]))
                 ELSE NotLooking]

OverlapGetTokenPrice(c, t) ==
    /\ GetTokenPriceStep(c, t, FALSE)
    /\ LookupBegins(c)
    /\ UNCHANGED <<dbService, now, retryVars, adapterVars, viaSui, batch,
                   suiJob, suiHistory, zeroJob, route>>

\* An adapter other than CoinGecko returns.
OverlapAdapterReturn(c, raw) ==
    /\ pc[c] = "source"
    /\ AwaitedAdapter(c) # "CoinGecko"
    /\ AdapterReturnStep(c, raw, FALSE)
    /\ LookupBegins(c)
    /\ UNCHANGED <<dbService, now, retryVars, adapterVars, viaSui, batch,
                   suiJob, suiHistory, zeroJob, route>>

\* getCoinGeckoPrice returns: what it did follows from the entry it read
\* when it began and from the answers src; the entry it assigned, if any, is
\* in the table from now on.
OverlapCoinGeckoReturn(c, src) ==
    /\ pc[c] = "source"
    /\ AwaitedAdapter(c) = "CoinGecko"
    /\ LET arg == CoinGeckoArg(tokenType[c])
           seen == MapAsSeen(COINGECKO_ID_MAP, arg, lookup[c])
           o == getCoinGeckoPrice(seen, arg, src)
       IN  /\ COINGECKO_ID_MAP' = MapAfterCall(COINGECKO_ID_MAP, seen, o.map)
           /\ cg' = CallRecord(arg, lookup[c], o)
           /\ AdapterReturnStep(c, o.result, FALSE)
    /\ LookupBegins(c)
    /\ UNCHANGED <<dbService, now, retryVars, sources, before, dex, hop,
                   viaSui, batch, suiJob, suiHistory, zeroJob, route>>

\* Two resolutions that overlap freely, each adapter answering once.
NextOverlap ==
    \/ Initialize
    \/ /\ dbService
       /\ \E c \in Calls, t \in CoinTypes : OverlapGetTokenPrice(c, t)
    \/ \E c \in Calls, raw \in WalletAnswers : OverlapAdapterReturn(c, raw)
    \/ \E c \in Calls, src \in OverlapAnswers : OverlapCoinGeckoReturn(c, src)

SpecOverlap == Init /\ [][NextOverlap]_vars

\* =================================================================== claims

\* A step of call c: getTokenPrice(t) is called and runs its cache check.
StartStep(c, t) ==
    /\ last' # last
    /\ last'.step = "call"
    /\ last'.call = c
    /\ last'.tokenType = t

\* A step of call c: the adapter it waits for returns.
AnswerStep(c) ==
    /\ pc[c] = "source"
    /\ last' # last
    /\ last'.step = "answer"
    /\ last'.call = c

\* The freshness predicate of the design: a record exists, its price is a
\* number strictly greater than zero, and its age is at most the TTL.
ReferenceFresh(tokenData, t) ==
    \E r \in tokenData :
        /\ r.price_usd.kind = "number"
        /\ r.price_usd.val > 0
        /\ t - r.last_update <= CACHE_DURATION

\* The call answered from the cache: it is over, it returned the stored
\* price, and it called no adapter and no setCachedPrice.
ServedFromCache(c, t) ==
    /\ last'.read = "hit"
    /\ last'.done
    /\ \E r \in getToken(tokens, t) : last'.result = r.price_usd
    /\ last'.puts = 0
    /\ pc'[c] = "idle"
    /\ invoked'[c] = <<>>

\* The call went on to live resolution: it awaits the first adapter of its
\* chain, and nothing else happened.
BeginsChain(c, t) ==
    /\ ~last'.done
    /\ pc'[c] = "source"
    /\ tokenType'[c] = t
    /\ invoked'[c] = <<Chain(t)[1]>>
    /\ tokens' = tokens

\* What the orchestrator does when the adapter call c waits for returns:
\* the adapters invoked so far are the first n of the chain, in order; a
\* valid price ends the call, which returns it; any other answer leads to
\* adapter n + 1, or to "absent" after the last adapter.
ChainStep(c) ==
    LET raw == last'.raw
        n == Len(invoked[c])
        chain == Chain(tokenType[c])
    IN  /\ n >= 1
        /\ n <= Len(chain)
        /\ invoked[c] = SubSeq(chain, 1, n)
        /\ last'.n = n
        /\ IF isValidPrice(raw)
           THEN /\ last'.done
                /\ last'.result = raw
                /\ pc'[c] = "idle"
                /\ invoked'[c] = <<>>
           ELSE IF n < Len(chain)
           THEN /\ ~last'.done
                /\ pc'[c] = "source"
                /\ invoked'[c] = Append(invoked[c], chain[n + 1])
           ELSE /\ last'.done
                /\ last'.result = Null
                /\ pc'[c] = "idle"
                /\ invoked'[c] = <<>>

\* The record of t is absent, or older than CACHE_DURATION.
StaleOrAbsent(tokenData, t) ==
    \/ tokenData = {}
    \/ \E r \in tokenData : t - r.last_update > CACHE_DURATION

\* C1 as stated: a call for a coin type whose record is fresh (it exists,
\* its price is a number > 0, its age is at most CACHE_DURATION) returns
\* exactly the stored price and invokes no adapter.
C1_FreshAlwaysServed ==
    [][\A c \in Calls, t \in CoinTypes :
          (StartStep(c, t) /\ ReferenceFresh(getToken(tokens, t), now))
          => ServedFromCache(c, t)]_vars

\* C1: a call for a coin type whose record is fresh (it exists, its price
\* is a number > 0, its age is at most CACHE_DURATION) and whose read of
\* the table does not raise returns exactly the stored price, and invokes
\* no adapter.
C1_FreshServedFromCache ==
    [][\A c \in Calls, t \in CoinTypes :
          (/\ StartStep(c, t)
           /\ last'.read # "error"
           /\ ReferenceFresh(getToken(tokens, t), now))
          => ServedFromCache(c, t)]_vars

\* C1 witness: a call was answered from the cache with a valid price, from
\* a record whose age is exactly CACHE_DURATION.
C1_Witness ==
    /\ last.step = "call"
    /\ last.read = "hit"
    /\ last.done
    /\ isValidPrice(last.result)
    /\ \E r \in getToken(tokens, last.tokenType) :
          /\ r.price_usd = last.result
          /\ now - r.last_update = CACHE_DURATION

\* C2: when the record is absent or older than CACHE_DURATION the adapters are invoked one after another in the
\* order of the chain; adapter k + 1 is invoked only when adapter k has
\* returned no valid price; the first valid price ends the call and is its
\* result; an invalid candidate and a failure have the same next step.
C2_ChainInOrderShortCircuit ==
    [][\A c \in Calls :
          /\ \A t \in CoinTypes :
                (StartStep(c, t) /\ StaleOrAbsent(getToken(tokens, t), now))
                => BeginsChain(c, t)
          /\ AnswerStep(c) => ChainStep(c)
          /\ invoked'[c] # invoked[c] => (last' # last /\ last'.call = c)]_vars

\* C2 witness: the third adapter of the generic chain yielded the price,
\* after two adapters that yielded none.
C2_Witness ==
    /\ last.step = "answer"
    /\ last.tokenType = TOK
    /\ last.n = 3
    /\ last.done
    /\ isValidPrice(last.result)
    /\ last.raw = last.result

\* C3: getTokenPrice never returns a value that is 0, negative, NaN or
\* non-finite (it returns a valid price or null), and what it stores is a
\* valid price.
C3_NeverInvalidPrice ==
    /\ last.done => (last.result = Null \/ isValidPrice(last.result))
    /\ last.stored => isValidPrice(last.result)

\* C4: when the last adapter of the chain returns no valid price the call
\* returns null and has not written the table: no step of a call but a
\* successful setCachedPrice changes the table.
C4_ExhaustedNoWrite ==
    [][\A c \in Calls :
          /\ (/\ AnswerStep(c)
              /\ ~isValidPrice(last'.raw)
              /\ Len(invoked[c]) = Len(Chain(tokenType[c])))
             => (/\ last'.done
                 /\ last'.result = Null
                 /\ last'.puts = 0
                 /\ ~last'.stored
                 /\ tokens' = tokens)
          /\ (last' # last /\ last'.call = c /\ ~last'.stored)
             => tokens' = tokens]_vars

\* C4 witness: all eight adapters of the generic chain were tried, the
\* call returned null, and the record it had found stale is still there.
C4_Witness ==
    /\ last.step = "answer"
    /\ last.tokenType = TOK
    /\ last.n = Len(GenericChain)
    /\ last.done
    /\ last.result = Null
    /\ last.read = "miss"
    /\ \E r \in getToken(tokens, TOK) : now - r.last_update > CACHE_DURATION

\* The last step was a call's return of a price a source adapter yielded.
LiveResolution(t) ==
    /\ last.step = "answer"
    /\ last.tokenType = t
    /\ last.done
    /\ isValidPrice(last.result)

\* C5 as stated: after a call that resolved price p for t from a source,
\* a subsequent getTokenPrice(t) made within CACHE_DURATION of that
\* resolution returns p and makes no outbound call.  (The clock starts at
\* 0: a call made when now <= CACHE_DURATION is within CACHE_DURATION of
\* every resolution before it.)
C5_SubsequentCallAlwaysCached ==
    [][\A c \in Calls, t \in CoinTypes :
          (/\ LiveResolution(t)
           /\ StartStep(c, t)
           /\ now <= CACHE_DURATION)
          => (ServedFromCache(c, t) /\ last'.result = last.result)]_vars

\* C5: when the write of a resolved price p for t succeeds the table holds
\* the record (t, p, time of the write); a record of setCachedPrice is in
\* the table only by such a write; and as long as that record is the one in
\* the table, every getTokenPrice(t) made within CACHE_DURATION of its
\* timestamp and whose read of the table does not raise returns p and
\* invokes no adapter.
C5_WriteBackServesLaterCalls ==
    [][/\ \A c \in Calls :
             (AnswerStep(c) /\ last'.stored)
             => getToken(tokens', last'.tokenType)
                  = {setCachedPriceRow(last'.tokenType, last'.result, now)}
       /\ \A r \in tokens' \ tokens :
             r.metadata = "{}"
             => (/\ last' # last
                 /\ last'.step = "answer"
                 /\ last'.stored
                 /\ isValidPrice(last'.result)
                 /\ r = setCachedPriceRow(last'.tokenType, last'.result, now))
       /\ \A c \in Calls, t \in CoinTypes :
             \A r \in getToken(tokens, t) :
                (/\ StartStep(c, t)
                 /\ last'.read # "error"
                 /\ r.metadata = "{}"
                 /\ now - r.last_update <= CACHE_DURATION)
                => (ServedFromCache(c, t) /\ last'.result = r.price_usd)]_vars

\* C5 witness: a call was answered from the record a resolution had
\* written at time 0, and the clock has not passed CACHE_DURATION.
C5_Witness ==
    /\ last.step = "call"
    /\ last.read = "hit"
    /\ last.done
    /\ now = CACHE_DURATION
    /\ getToken(tokens, last.tokenType)
         = {setCachedPriceRow(last.tokenType, last.result, 0)}

\* C6: a getTokenPrice call that is over has returned a number or null; it
\* has not raised, whatever the table, the sources and its argument did.
C6_NeverRaises ==
    last.done => last.result.kind \in {"number", "null"}

\* C6 witness: a call whose argument is no string at all (extractSymbol
\* raises on it) has returned null.
C6_Witness ==
    /\ last.step = "call"
    /\ last.tokenType = Undefined
    /\ last.done
    /\ last.result = Null

\* C7: a record whose price is exactly zero is never served, whatever its
\* age: the call goes on to live resolution.
C7_ZeroNeverFresh ==
    [][\A c \in Calls, t \in CoinTypes :
          (/\ StartStep(c, t)
           /\ \E r \in getToken(tokens, t) : StrictEqZero(r.price_usd))
          => (last'.read # "hit" /\ BeginsChain(c, t))]_vars

\* C7 witness: a call found a zero-price record of age 0 (within the TTL),
\* its read did not raise, and it awaits its first adapter.
C7_Witness ==
    /\ last.step = "call"
    /\ last.read = "miss"
    /\ ~last.done
    /\ \E r \in getToken(tokens, last.tokenType) :
          /\ StrictEqZero(r.price_usd)
          /\ now - r.last_update = 0

\* C8: a call whose read of the table does not raise is answered from the
\* cache if and only if the record exists, its price is strictly greater
\* than zero and its age is at most CACHE_DURATION.
C8_FreshnessIsReference ==
    [][\A c \in Calls, t \in CoinTypes :
          (StartStep(c, t) /\ last'.read # "error")
          => (last'.read = "hit" <=> ReferenceFresh(getToken(tokens, t), now))]_vars

\* C9: a call that returns a price an adapter yielded has invoked
\* setCachedPrice exactly once, for its coin type, with the returned price;
\* the row saved has the time of the write as its timestamp.  A call
\* answered from the cache, or with null, has invoked it not at all and
\* leaves the table as it is.
C9_ExactlyOnePut ==
    [][\A c \in Calls :
          (last' # last /\ last'.call = c)
          => /\ last'.done
                => (last'.puts =
                      IF last'.step = "answer" /\ isValidPrice(last'.result)
                      THEN 1 ELSE 0)
             /\ ~last'.done => last'.puts = 0
             /\ last'.stored => last'.puts = 1
             /\ IF last'.stored
                THEN tokens' = saveToken(tokens,
                                 [coin_type |-> tokenType[c],
                                  price_usd |-> last'.result,
                                  last_update |-> now,
                                  metadata |-> "{}"])
                ELSE tokens' = tokens]_vars

\* C9 witness: a price resolved at a time other than 0 is in the table
\* with that time as its timestamp.
C9_Witness ==
    /\ last.step = "answer"
    /\ last.puts = 1
    /\ last.stored
    /\ now > 0
    /\ getToken(tokens, last.tokenType)
         = {[coin_type |-> last.tokenType, price_usd |-> last.result,
             last_update |-> now, metadata |-> "{}"]}

\* C10: a call whose read of the table raises (getToken raises, or
\* dbService was never set) goes on as after a miss: it invokes the
\* adapters of its chain in order and returns the first valid price.
C10_ReadFailureIsMiss ==
    [][\A c \in Calls :
          /\ \A t \in CoinTypes :
                /\ (StartStep(c, t) /\ ~dbService) => last'.read = "error"
                /\ (StartStep(c, t) /\ last'.read = "error")
                   => (BeginsChain(c, t) /\ cacheRead'[c] = "error")
          /\ (AnswerStep(c) /\ cacheRead[c] = "error")
             => (ChainStep(c) /\ last'.read = "error")]_vars

\* C10 witness: with a fresh record in a table that could not be read, the
\* call returned the price its second adapter yielded.
C10_Witness ==
    /\ last.step = "answer"
    /\ last.read = "error"
    /\ last.n = 2
    /\ last.done
    /\ isValidPrice(last.result)
    /\ \E r \in getToken(tokens, last.tokenType) :
          /\ r.metadata = "mmt"
          /\ now - r.last_update <= CACHE_DURATION

\* C11: when the write of a valid price p a source yielded fails (saveToken
\* raises, or dbService was never set), the call still returns p and the
\* table is as it was before the step.
C11_WriteFailureSwallowed ==
    [][\A c \in Calls :
          /\ (AnswerStep(c) /\ isValidPrice(last'.raw) /\ ~dbService)
             => ~last'.stored
          /\ (AnswerStep(c) /\ isValidPrice(last'.raw) /\ ~last'.stored)
             => (/\ last'.done
                 /\ last'.result = last'.raw
                 /\ last'.puts = 1
                 /\ pc'[c] = "idle"
                 /\ tokens' = tokens)]_vars

\* C11 witness: with dbService set, saveToken raised on the write of a
\* valid price; the call returned the price and the record of another
\* writer, with another price, is still the one in the table.
C11_Witness ==
    /\ last.step = "answer"
    /\ last.done
    /\ last.puts = 1
    /\ ~last.stored
    /\ dbService
    /\ isValidPrice(last.result)
    /\ \E r \in getToken(tokens, last.tokenType) :
          /\ r.metadata = "mmt"
          /\ r.price_usd # last.result

\* C12: the adapters a call for a generic coin type has invoked are, in
\* order, the first of: 7k, GeckoTerminal, DexScreener, CoinGecko, Hop
\* aggregator, Aftermath, 7k batch, DexScreener via SUI pair; so the Hop
\* aggregator is invoked before Aftermath.
C12_GenericPriorityOrder ==
    \A c \in Calls :
        (pc[c] = "source" /\ tokenType[c] = TOK)
        => /\ invoked[c] =
                SubSeq(<<"7k", "GeckoTerminal", "DexScreener", "CoinGecko",
                         "HopAggregator", "Aftermath", "7kBatch",
                         "DexScreenerViaSui">>, 1, Len(invoked[c]))
           /\ \A i \in 1..Len(invoked[c]) :
                 invoked[c][i] = "Aftermath"
                 => \E j \in 1..(i - 1) : invoked[c][j] = "HopAggregator"

C14_RetryOperationResult ==
    [][/\ (retry'.count # retry.count /\ retry'.pc # "idle")
          => \/ retry'.count = 1 /\ retry.pc \in {"idle", "returned"}
             \/ /\ retry'.count = retry.count + 1
                /\ retry.attempt = Thrown
                /\ retry'.count <= retry.maxRetries
       /\ (retry'.pc = "returned" /\ retry.pc # "returned")
          => /\ retry'.out.kind \in {"number", "null"}
             /\ retry'.count = retry.count
             /\ IF retry'.attempt = Thrown
                THEN /\ retry'.out = Null
                     /\ retry'.count = retry.maxRetries
                ELSE /\ retry'.out = retry'.attempt
                     /\ retry'.count = retry.i + 1
                     /\ retry'.count <= retry.maxRetries]_vars

\* C14 witness: with maxRetries = 3 the operation raised once, completed
\* with a price on its second attempt, and retryOperation returned it.
C14_Witness ==
    /\ retry.pc = "returned"
    /\ retry.maxRetries = MaxRetries
    /\ retry.count = 2
    /\ retry.attempt = Num(1)
    /\ retry.out = Num(1)

C16_OneAdapterInFlight ==
    [][/\ Cardinality(walk'.open) <= 1
       /\ (walk'.chain # <<>> /\ retry'.pc \in {"operation", "timer"})
          => walk'.open = {walk'.chain[walk'.pos]}
       /\ (walk'.chain # <<>> /\ walk'.pos # walk.pos)
          => /\ walk.open = {}
             /\ retry.pc \in {"idle", "returned"}
             /\ walk'.pos = walk.pos + 1
             /\ walk'.open = {walk'.chain[walk'.pos]}]_vars

\* C16 witness: the third adapter of the generic chain waits for its
\* backoff timer, and it is the only adapter that has not returned.
C16_Witness ==
    /\ walk.chain = GenericChain
    /\ walk.pos = 3
    /\ retry.pc = "timer"
    /\ retry.elapsed > 0
    /\ walk.open = {"DexScreener"}

\* C17: every outbound call of a resolution has a deadline: whenever an
\* attempt of an adapter is in flight, the adapter's calls are given a
\* timeout after which they are aborted.
C17_EveryCallHasDeadline ==
    (walk.chain # <<>> /\ retry.pc = "operation")
    => Deadline(walk.chain[walk.pos]) > 0

\* C18: when the source of the adapter a call awaits fails (transport
\* error, timeout, parse error) the call does not end there: it invokes the
\* next adapter of its chain, and only after the last adapter it returns
\* null (no price found); the table is not written.
C18_SourceErrorFallsThrough ==
    [][\A c \in Calls :
          (AnswerStep(c) /\ last'.raw = Thrown)
          => LET n == Len(invoked[c])
                 chain == Chain(tokenType[c])
             IN  /\ tokens' = tokens
                 /\ IF n < Len(chain)
                    THEN /\ ~last'.done
                         /\ pc'[c] = "source"
                         /\ invoked'[c] = Append(invoked[c], chain[n + 1])
                    ELSE /\ last'.done
                         /\ last'.result = Null]_vars

\* C18 witness: the first adapter's source failed and the call awaits its
\* second adapter.
C18_Witness ==
    /\ last.step = "answer"
    /\ last.raw = Thrown
    /\ last.n = 1
    /\ ~last.done
    /\ pc[last.call] = "source"
    /\ Len(invoked[last.call]) = 2

\* C19: when calls for the same coin type interleave (all of them missed
\* the cache), each returns a valid price or null; every write replaces
\* the record of the coin type by the whole record of that write, so that
\* the table holds the price of the last write, a price one of the calls
\* returned; no record is ever zero, invalid or made of two writes.
C19_LastWriterWins ==
    [][/\ \A r \in tokens' :
             /\ isValidPrice(r.price_usd)
             /\ r.metadata = "{}"
             /\ Cardinality(getToken(tokens', r.coin_type)) = 1
       /\ \A c \in Calls :
             (last' # last /\ last'.call = c)
             => /\ last'.done
                   => (last'.result = Null \/ isValidPrice(last'.result))
                /\ IF last'.stored
                   THEN /\ isValidPrice(last'.result)
                        /\ getToken(tokens', tokenType[c])
                             = {[coin_type |-> tokenType[c],
                                 price_usd |-> last'.result,
                                 last_update |-> now,
                                 metadata |-> "{}"]}
                        /\ \A t \in CoinTypes \ {tokenType[c]} :
                              getToken(tokens', t) = getToken(tokens, t)
                   ELSE tokens' = tokens]_vars

\* C19 witness: two calls for the same coin type both missed the cache;
\* A wrote the price 1 while B was still resolving, B then wrote 2; both
\* have returned and the record holds B's price.
C19_Witness ==
    /\ racing = [call |-> "A", tokenType |-> TOK, price |-> Num(1)]
    /\ last.step = "answer"
    /\ last.call = "B"
    /\ last.tokenType = TOK
    /\ last.read = "miss"
    /\ last.stored
    /\ last.result = Num(2)
    /\ \A c \in Calls : pc[c] = "idle"
    /\ getToken(tokens, TOK) = {setCachedPriceRow(TOK, Num(2), now)}

\* C20: the price and the timestamp of a record change only by the write
\* of a getTokenPrice call (setCachedPrice): no handler and no scheduled
\* job writes the table.
C20_OrchestratorSoleWriter ==
    [][tokens' # tokens
       => /\ last' # last
          /\ last'.step = "answer"
          /\ last'.stored
          /\ pc[last'.call] = "source"]_vars

\* C21: once the record of a coin type holds a valid positive price, no
\* operation replaces that price by zero or by an invalid value.
C21_ValidPriceNeverLost ==
    [][\A r \in tokens :
          isValidPrice(r.price_usd)
          => \A r2 \in getToken(tokens', r.coin_type) :
                isValidPrice(r2.price_usd)]_vars

\* Two getCoinGeckoPrice calls in a row had the same argument: with the
\* answers settled, they received the same answer to every request.
SameCallTwice == before.arg # Undefined /\ before.arg = cg.arg

C23_EveryFailureRetried ==
    [][(walk.chain # <<>> /\ walk'.chain = walk.chain
                         /\ walk'.pos = walk.pos + 1)
       => retry.count = 3 /\ retry.delay = 1000]_vars

\* C24: in every resolution CoinGecko has been tried before DexScreener is,
\* and no source is tried after DexScreener.
C24_DexScreenerLastResort ==
    \A c \in Calls : \A i \in 1..Len(invoked[c]) :
        invoked[c][i] = "DexScreener"
        => /\ \E j \in 1..(i - 1) : invoked[c][j] = "CoinGecko"
           /\ i = Len(invoked[c])

\* The latest getCoinGeckoPrice call had no known ID for its argument, asked
\* the indexer, and the indexer named an ID.
IndexerNamedId ==
    /\ cg.arg # Undefined
    /\ cg.known = Undefined
    /\ cg.requests # <<>>
    /\ cg.requests[1] = Request("indexer", cg.arg)
    /\ sources.indexer = IndexerId

\* A call that begins with a known ID asks for the price of that ID and
\* makes no other request: no indexer lookup, no search.
QueriesByKnownId ==
    cg.known # Undefined
    => \A i \in 1..Len(cg.requests) :
          cg.requests[i] = Request("price", cg.known)

\* An entry of COINGECKO_ID_MAP, once set, stays as it is.
MappingKept ==
    \A a \in CoinGeckoArgs :
        COINGECKO_ID_MAP[a] # Undefined
        => COINGECKO_ID_MAP'[a] = COINGECKO_ID_MAP[a]

SearchPlace ==
    LET places == {i \in 1..Len(cg.requests) : cg.requests[i].kind = "search"}
    IN  IF places = {} THEN 0 ELSE CHOOSE i \in places : TRUE

\* The places of the search results with the symbol of the identifier,
\* whatever the case of the letters; those of them on the SUI network.
WithSymbol ==
    {i \in 1..Len(sources.search.coins) :
        toLowerCase(sources.search.coins[i].symbol)
            = toLowerCase(extractSymbol(cg.arg))}

WithSymbolOnSui ==
    {i \in WithSymbol :
        \E p \in sources.search.coins[i].platforms : toLowerCase(p) = "sui"}

Least(S) == CHOOSE i \in S : \A j \in S : i <= j

\* C30: when the search answers with a list of results, the request that
\* follows is for the price of the first result with the symbol on the SUI
\* network if there is one, else of the first result with the symbol; when
\* no result has the symbol, no request follows and the adapter yields
\* nothing.
C30_SearchMatch ==
    (SearchPlace # 0 /\ sources.search.status = "ok")
    => IF WithSymbolOnSui # {}
       THEN cg.requests[Len(cg.requests)]
               = Request("price", CoinId(Least(WithSymbolOnSui)))
       ELSE IF WithSymbol # {}
       THEN cg.requests[Len(cg.requests)]
               = Request("price", CoinId(Least(WithSymbol)))
       ELSE SearchPlace = Len(cg.requests) /\ cg.result = Null

\* The search lists the symbol on another network first and on SUI second:
\* the second result is priced.
C30_Witness ==
    /\ SearchPlace # 0
    /\ sources.search.status = "ok"
    /\ WithSymbol = {1, 2}
    /\ WithSymbolOnSui = {2}
    /\ cg.requests[Len(cg.requests)] = Request("price", CoinId(2))
    /\ isValidPrice(cg.result)

\* The pairs the latest getDexScreenerPrice call had to choose from: those
\* of the search by coin type, or of the search by contract address when
\* the first one found none.
ReturnedPairs ==
    IF dex.full.pairs # <<>> THEN dex.full.pairs ELSE dex.contract.pairs

\* The returned pairs with positive liquidity on a chain of `chains`.
LiquidOn(chains) ==
    {i \in 1..Len(ReturnedPairs) :
        /\ ReturnedPairs[i].chainId \in chains
        /\ ReturnedPairs[i].liquidity # Null
        /\ ReturnedPairs[i].liquidity.val > 0}

\* The adapter's price is the price of a returned pair of `eligible` whose
\* liquidity is the greatest of `eligible`.
PriceOfMostLiquid(eligible) ==
    \E i \in eligible :
        /\ \A j \in eligible :
              ReturnedPairs[j].liquidity.val <= ReturnedPairs[i].liquidity.val
        /\ Number(ReturnedPairs[i].priceUsd) = dex.result

SomePairPriced ==
    \E i \in 1..Len(ReturnedPairs) :
        isValidPrice(Number(ReturnedPairs[i].priceUsd))

\* C26 (as stated): when pairs are returned, none of them on 'sui' with
\* positive liquidity, and some pair has a valid price, the adapter yields
\* the valid price of a returned pair.
C26_ScansAllPairs ==
    (ReturnedPairs # <<>> /\ LiquidOn({"sui"}) = {} /\ SomePairPriced)
    => /\ isValidPrice(dex.result)
       /\ \E i \in 1..Len(ReturnedPairs) :
             Number(ReturnedPairs[i].priceUsd) = dex.result

\* C26 (amended): when pairs are returned and none of them is on 'sui' or
\* names no chain with positive liquidity, the adapter yields no price,
\* whatever the prices of the returned pairs.
C26_NoPriceWithoutSuiPair ==
    (ReturnedPairs # <<>> /\ LiquidOn({"sui", ""}) = {})
    => dex.result = Null

\* A liquid pair on another chain with a valid price: no price.
C26_Witness ==
    /\ Len(ReturnedPairs) = 1
    /\ ReturnedPairs[1] = [chainId |-> "ethereum", liquidity |-> Num(5000),
                           priceUsd |-> "1"]
    /\ dex.result = Null

\* The places of the searches by contract address among the requests of
\* the latest getDexScreenerPrice call.
ContractQueries ==
    {i \in 1..Len(dex.requests) :
        dex.requests[i] = Request("search", extractContractAddress(dex.arg))}

\* C27: the search by contract address is made if and only if the search by
\* coin type answered successfully with no pairs, and it follows that search
\* at once; when the first search returns a pair or a non-OK status, it is
\* the only request.
C27_ContractQueryIffNoPairs ==
    dex # NoDexCall
    => /\ ContractQueries # {}
          <=> (dex.full.status = "ok" /\ dex.full.pairs = <<>>)
       /\ \A i \in ContractQueries :
             i > 1 /\ dex.requests[i - 1] = Request("search", dex.arg)
       /\ (dex.full.status = "not ok" \/ dex.full.pairs # <<>>)
          => dex.requests = <<Request("search", dex.arg)>>

\* The search by coin type finds no pairs, the one by contract address does.
C27_Witness ==
    /\ dex.arg = TOK
    /\ dex.full.status = "ok"
    /\ dex.full.pairs = <<>>
    /\ dex.requests = <<Request("search", TOK), Request("search", "0xabc")>>
    /\ isValidPrice(dex.result)

\* C28: whatever the decimals d of the coin, the quote is asked for 10^d
\* base units and the price is the USD value of one whole unit.
C28_OneWholeUnit ==
    hop.answer = "quote"
    => /\ hop.amountIn = Pow10(hop.decimals)
       /\ hop.result = Num(hop.unitPrice)

\* The places of the returned pairs with a valid price; those of them quoted
\* in SUI.
ValidPlaces ==
    {i \in 1..Len(viaSui.answer.pairs) :
        isValidPrice(Number(viaSui.answer.pairs[i].priceUsd))}

ValidSuiPlaces ==
    {i \in ValidPlaces :
        viaSui.answer.pairs[i].quoteToken.symbol = "SUI"}

\* C31: when pairs are returned, the adapter yields the price of a pair
\* quoted in SUI with a valid price if there is one; otherwise the price of
\* the first pair with a valid price; nothing only if no pair has one.
C31_PrefersSuiQuotedPair ==
    (viaSui.answer.status = "ok" /\ viaSui.answer.pairs # <<>>)
    => IF ValidSuiPlaces # {}
       THEN \E i \in ValidSuiPlaces :
               viaSui.result = Number(viaSui.answer.pairs[i].priceUsd)
       ELSE IF ValidPlaces # {}
       THEN viaSui.result
               = Number(viaSui.answer.pairs[Least(ValidPlaces)].priceUsd)
       ELSE viaSui.result = Null

\* C39: a price the Aftermath adapter or the 7k batch lookup yields for a
\* coin type is the price of the response's entry for that coin type.
C39_PriceOfRequestedCoin ==
    isValidPrice(batch.result)
    => \E i \in 1..Len(batch.answer.entries) :
          /\ batch.answer.entries[i].key = batch.arg
          /\ batch.answer.entries[i].price = batch.result

\* The row of coin type t was written in this step with a price that can be
\* served and a later timestamp than it had.
FreshnessExtended(t) ==
    \E old \in getToken(tokens, t), new \in getToken(tokens', t) :
        /\ isValidPrice(new.price_usd)
        /\ new.last_update > old.last_update

C34_CoinGeckoIffSdkInvalid ==
    /\ [](suiJob # NoSuiRun
          => /\ suiJob.asked <=> ~isValidPrice(suiJob.sdk)
             /\ suiJob.history \/ suiJob.token => isValidPrice(suiJob.price))
    /\ [][suiHistory' # suiHistory \/ tokens' # tokens
           => isValidPrice(suiJob'.price)]_vars

\* A run in which the SDK answered 0, CoinGecko was queried and its price was
\* saved to both stores.
C34_Witness ==
    /\ suiJob.sdk = Num(0)
    /\ suiJob.asked
    /\ suiJob.price = Num(2)
    /\ [price |-> Num(2), timestamp |-> now] \in suiHistory
    /\ SuiTokenRow(Num(2), now) \in tokens

\* C35: after any run of updateSuiPrice, including runs in which a storage
\* write fails, either both the SUI price history and the tokens table
\* received the price of the run or neither did.
C35_BothStoresOrNeither ==
    suiJob # NoSuiRun => (suiJob.history <=> suiJob.token)

\* The row of the coin type holds the price.
Holds(table, coinType, price) ==
    /\ getToken(table, coinType) # {}
    /\ \A r \in getToken(table, coinType) : r.price_usd = price

\* The tokens of the run that have been through the loop, in order.
Done == zeroJob.processed

\* C36: updateZeroPriceTokens processes every selected token exactly once,
\* in the order of the selection; an error or an absent price for one token
\* does not keep the remaining ones from being processed; a token's record
\* is updated only with a finite price > 0; on completion updated + failed
\* is the number of selected tokens; the job never raises.
C36_EveryTokenOnceFailuresIsolated ==
    /\ [](/\ ~zeroJob.raised
          /\ Len(Done) <= Len(zeroJob.selected)
          /\ \A k \in 1..Len(Done) : Done[k].coin_type = zeroJob.selected[k]
          /\ \A j, k \in 1..Len(zeroJob.selected) :
                zeroJob.selected[j] = zeroJob.selected[k] => j = k
          /\ zeroJob.updated + zeroJob.failed = Len(Done)
          /\ zeroJob.pc = "token" <=> Len(Done) < Len(zeroJob.selected)
          /\ \A k \in 1..Len(Done) :
                Done[k].outcome = "updated" => isValidPrice(Done[k].price))
    /\ [][zeroJob.pc = "token" /\ zeroJob'.processed # zeroJob.processed
          => \/ tokens' = tokens
             \/ /\ isValidPrice(last.result)
                /\ Holds(tokens', last.tokenType, last.result)
                /\ \A r \in tokens' \ tokens : r.coin_type = last.tokenType]_vars

\* A finished run over two tokens: the first found a price and its UPDATE
\* raised, the second found none; both count as failed.
C36_Witness ==
    /\ zeroJob.pc = "done"
    /\ Len(zeroJob.selected) = 2
    /\ isValidPrice(Done[1].price) /\ Done[1].outcome = "failed"
    /\ Done[2].price = Null
    /\ zeroJob.failed = 2

\* The wallet handler has just saved a coin it found no price for.
SavedUnpriced == last.step = "saved" /\ last.result = Null

\* A step that begins a run of updateZeroPriceTokens.
RunBegins == zeroJob.pc # "token" /\ zeroJob' # zeroJob

C37_NotFoundIffAbsent ==
    route.pc = "done"
    => /\ route.status = 404 <=> (route.called /\ route.price = Null)
       /\ route.status = 404 => ~route.wrote
       /\ route.fromCache = "true"
          => /\ ~route.called
             /\ route.status = 200
             /\ \E r \in route.row :
                   /\ r.price_usd.kind = "number"
                   /\ r.price_usd.val > 0
                   /\ r.price_usd = route.body
                   /\ route.time - r.last_update <= CACHE_DURATION

\* A request for a coin whose row was stale: getTokenPrice was reached,
\* found no price, and the answer is 404.
C37_Witness ==
    /\ route.pc = "done"
    /\ route.status = 404
    /\ route.called
    /\ \E r \in route.row : isValidPrice(r.price_usd)

\* The rows of the tokens table the step added, removed or replaced.
RowsTouched == (tokens' \ tokens) \cup (tokens \ tokens')

\* The entries of COINGECKO_ID_MAP the step assigned.
EntriesTouched ==
    {k \in DOMAIN COINGECKO_ID_MAP : COINGECKO_ID_MAP'[k] # COINGECKO_ID_MAP[k]}

\* C38: a step of a resolution for identifier I touches the cache record of
\* I only and the entry of I only in the table of known IDs, however the
\* resolutions overlap.
C38_TouchesOwnIdentifierOnly ==
    [][/\ \A r \in RowsTouched : r.coin_type = last'.tokenType
       /\ \A k \in EntriesTouched : k = last'.tokenType]_vars

\* A resolution of TOK has just stored its price and the ID it found, while
\* SUI has a record and another resolution of SUI is under way.
C38_Witness ==
    /\ last.tokenType = TOK /\ last.done /\ last.stored
    /\ cg.arg = TOK /\ COINGECKO_ID_MAP[TOK] = IndexerId
    /\ getToken(tokens, SUI) # {}
    /\ \E c \in Calls : pc[c] = "source" /\ tokenType[c] = SUI

\* C40: the table of known IDs only grows, however the resolutions follow
\* one another or overlap: the predefined entries never change, an entry is
\* added only together with a valid price obtained by that ID, and an entry,
\* once there, is never removed or changed to another ID.
C40_MappingOnlyGrows ==
    /\ [](\A k \in DOMAIN KnownIds :
             KnownIds[k] # Undefined => COINGECKO_ID_MAP[k] = KnownIds[k])
    /\ [][\A k \in EntriesTouched :
             /\ COINGECKO_ID_MAP[k] = Undefined
             /\ isValidPrice(cg'.result)
             /\ cg'.requests[Len(cg'.requests)]
                = Request("price", COINGECKO_ID_MAP'[k])]_vars

====
